---- MODULE Spec2Model ----
(***************************************************************************)
(* Model of the Argo index store of argopy                                 *)
(* (argopy/stores/argo_index_pa.py): the prototype ArgoIndexStoreProto and *)
(* its two implementations indexstore_pyarrow and indexstore_pandas.       *)
(*                                                                         *)
(* Encoding conventions:                                                   *)
(*   - an attribute that may be absent (hasattr) or an optional argument   *)
(*     (None) is a sequence of length 0 or 1: <<>> is "absent"/None,       *)
(*     <<v>> is the value v;                                               *)
(*   - a table (pyarrow.Table / pandas.DataFrame) is a record              *)
(*     [columns, rows]; a row is a record of its column values;            *)
(*   - longitudes and latitudes are integers in 1/1000 degree;             *)
(*   - timestamps are integers YYYYMMDD (time of day is dropped);          *)
(*   - strings (file entries, cname, cache paths) are TLA+ strings.        *)
(***************************************************************************)
EXTENDS Integers, Sequences, FiniteSets, TLC

VARIABLES
    backend,        \* 'pyarrow' or 'pandas': which class the store is
    cache,          \* self.cache
    gz_exists,      \* whether <index_path>.gz exists on fs['index']
    gdac,           \* data rows of the index file at index_path
    header,         \* column-header line of the index file at index_path
    index,          \* self.index (optional attribute)
    search,         \* self.search (optional attribute)
    search_type,    \* self.search_type
    search_filter,  \* self.search_filter (optional attribute)
    fs_search,      \* artifacts held by fs['search']: path -> content
    fs_index,       \* the store object, if one was constructed: its host and
                    \* the kind of its fs['index']
    twin,           \* an indexstore_pandas on the same index file, given the
                    \* same calls as the store above (SpecPair)
    threads,        \* two threads calling search methods on the store: the
                    \* position of each in its call (SpecThreads)
    fetcher,        \* an FTPArgoDataFetcher: its dataset_id, the URIs given
                    \* to uri_mono2multi and the list returned (SpecMono); a
                    \* Fetch_box: its BOX, its list of files, its post-filter
                    \* flag and the dataset it returns (SpecBox)
    load_nrows,     \* history: [nrows] of the latest load that returned
    last,           \* history: the latest call, its arguments and outcome
    rt              \* history: observer of a cache round trip of one search

vars == <<backend, cache, gz_exists, gdac, header, index, search, search_type,
          search_filter, fs_search, fs_index, twin, threads, fetcher, load_nrows,
          last, rt>>

(***************************************************************************)
(* Bounds                                                                  *)
(***************************************************************************)
MaxNrows == 2

(***************************************************************************)
(* Optional values                                                         *)
(***************************************************************************)
None == <<>>
Some(v) == <<v>>
hasattr(a) == a # <<>>
Min(a, b) == IF a <= b THEN a ELSE b

Max(a, b) == IF a >= b THEN a ELSE b

(***************************************************************************)
(* Strings: formatting, joining, splitting, regular-expression search      *)
(***************************************************************************)
Char(s, i) == SubSeq(s, i, i)

\* "%i" % n
FmtInt(n) == ToString(n)

\* "%0.<w>d" % n : at least w digits, zero-padded on the left
RECURSIVE ZeroPad(_, _)
ZeroPad(s, w) == IF Len(s) >= w THEN s ELSE ZeroPad("0" \o s, w)
FmtIntPrec(n, w) == IF n < 0 THEN "-" \o ZeroPad(ToString(-n), w)
                    ELSE ZeroPad(ToString(n), w)

\* "%0.2f" % x, x given in 1/1000: rounded to the nearest 1/100
FmtFloat2(x) ==
    LET a  == IF x < 0 THEN -x ELSE x
        h  == (a + 5) \div 10
    IN  (IF x < 0 THEN "-" ELSE "") \o ToString(h \div 100) \o "."
        \o ZeroPad(ToString(h % 100), 2)

\* sep.join(strs)
RECURSIVE Join(_, _)
Join(strs, sep) ==
    IF strs = <<>> THEN ""
    ELSE IF Len(strs) = 1 THEN strs[1]
    ELSE strs[1] \o sep \o Join(Tail(strs), sep)

\* sorted(ints)
sorted(ints) == SortSeq(ints, LAMBDA a, b : a < b)

\* str.lower() of one character, over the letters the patterns contain
Lower(c) == IF c = "N" THEN "n" ELSE IF c = "C" THEN "c" ELSE c

\* re.search(pattern, s): patterns are literals in which "." matches any
\* character; ignorecase is pandas' case=False
MatchAt(s, pattern, i, ignorecase) ==
    \A k \in 1..Len(pattern) :
        \/ Char(pattern, k) = "."
        \/ IF ignorecase
           THEN Lower(Char(s, i + k - 1)) = Lower(Char(pattern, k))
           ELSE Char(s, i + k - 1) = Char(pattern, k)
regex_search(s, pattern, ignorecase) ==
    \E i \in 1..(Len(s) - Len(pattern) + 1) : MatchAt(s, pattern, i, ignorecase)

\* s.split('/') 
RECURSIVE SplitFrom(_, _, _)
SplitFrom(s, i, cur) ==
    IF i > Len(s) THEN <<cur>>
    ELSE IF Char(s, i) = "/" THEN <<cur>> \o SplitFrom(s, i + 1, "")
    ELSE SplitFrom(s, i + 1, cur \o Char(s, i))
split(s) == SplitFrom(s, 1, "")

(***************************************************************************)
(* Tables                                                                  *)
(***************************************************************************)
Table(columns, rows) == [columns |-> columns, rows |-> rows]
shape0(t) == Len(t.rows)

\* table[0:stop] (Python slice of the rows)
slice0(t, stop) ==
    Table(t.columns,
          IF stop >= 0 THEN SubSeq(t.rows, 1, Min(stop, Len(t.rows)))
          ELSE SubSeq(t.rows, 1, Max(0, Len(t.rows) + stop)))

\* the rows of t at the positions (1-based) where mask is true, in order
RECURSIVE nonzero(_)
nonzero(mask) ==
    IF mask = <<>> THEN <<>>
    ELSE nonzero(SubSeq(mask, 1, Len(mask) - 1))
         \o (IF mask[Len(mask)] THEN <<Len(mask)>> ELSE <<>>)

take(rows, positions) == [k \in 1..Len(positions) |-> rows[positions[k]]]

(***************************************************************************)
(* The index file on the GDAC                                              *)
(***************************************************************************)
host == "/gdac"
index_file == "ar_index_global_prof.txt"
IndexColumns == <<"file", "date", "latitude", "longitude", "institution",
                  "profiler_type", "date_update">>
PreambleLines == 8

Row(file, date, latitude, longitude, institution, profiler_type) ==
    [file |-> file, date |-> date, latitude |-> latitude,
     longitude |-> longitude, institution |-> institution,
     profiler_type |-> profiler_type, date_update |-> date]

\* A profile index whose first row lies outside the box and the WMO lists
\* searched below, with rows on the box boundary
ProfRows ==
    << Row("aoml/13857/profiles/R13857_007.nc", 20070715, 42000, -50000, "AO", 846),
       Row("aoml/13858/profiles/R13858_007.nc", 20070801, 40000, -60000, "AO", 846),
       Row("aoml/13858/profiles/R13858_1007.nc", 20070815, 42500, -57500, "AO", 846),
       Row("coriolis/13859/profiles/D13859_007.nc", 20070820, 45000, -55000, "IF", 999) >>

\* A profile index of one float whose cycle numbers are written with 3 and
\* with 4 digits, with a descending profile (suffix D)
CycRows ==
    << Row("aoml/13857/profiles/R13857_007.nc", 20070715, 42000, -50000, "AO", 846),
       Row("aoml/13857/profiles/R13857_1007.nc", 20070801, 40000, -60000, "AO", 846),
       Row("aoml/13857/profiles/R13857_0007.nc", 20070815, 42500, -57500, "AO", 846),
       Row("aoml/13857/profiles/R13857_234.nc", 20070820, 45000, -55000, "AO", 846),
       Row("aoml/13857/profiles/R13857_1234.nc", 20070821, 45000, -55000, "AO", 846),
       Row("aoml/13857/profiles/R13857_007D.nc", 20070822, 45000, -55000, "AO", 846) >>

\* A profile index with two floats whose WMOs end with the same digits
WmoCycRows ==
    << Row("aoml/13857/profiles/R13857_007.nc", 20070715, 42000, -50000, "AO", 846),
       Row("aoml/13857/profiles/R13857_008.nc", 20070725, 42000, -50000, "AO", 846),
       Row("aoml/1913857/profiles/R1913857_007.nc", 20070801, 40000, -60000, "AO", 846),
       Row("coriolis/13859/profiles/D13859_007.nc", 20070820, 45000, -55000, "IF", 999) >>

(***************************************************************************)
(* ArgoIndexStoreProto: cname, fingerprints, row counts                    *)
(***************************************************************************)
NoSearchType == [k \in {} |-> <<>>]     \* the class attribute search_type = '?'

\* _format(x, "tim"): pd.to_datetime(x).strftime("%Y-%m-%d")
_format_tim(x) ==
    ZeroPad(ToString(x \div 10000), 4) \o "-"
    \o ZeroPad(ToString((x \div 100) % 100), 2) \o "-"
    \o ZeroPad(ToString(x % 100), 2)

prtcyc(CYC, wmo) ==
    "WMO" \o FmtInt(wmo) \o "_"
    \o Join([k \in 1..Len(CYC) |-> "CYC" \o FmtInt(sorted(CYC)[k])], "_")

\* mutant of cname: the WMOs and the cycles are joined in the order given
cname_input_order(st) ==
    IF "BOX" \in DOMAIN st THEN
        LET BOX == st.BOX
            xy  == "x=" \o FmtFloat2(BOX[1]) \o "/" \o FmtFloat2(BOX[2])
                   \o ";y=" \o FmtFloat2(BOX[3]) \o "/" \o FmtFloat2(BOX[4])
        IN  IF Len(BOX) = 6
            THEN xy \o ";t=" \o _format_tim(BOX[5]) \o "/" \o _format_tim(BOX[6])
            ELSE xy
    ELSE IF "WMO" \in DOMAIN st THEN
        LET WMO == st.WMO
            hasCYC == "CYC" \in DOMAIN st
        IN  IF Len(WMO) = 1 THEN
                IF hasCYC THEN prtcyc(st.CYC, WMO[1])
                ELSE "WMO" \o FmtInt(WMO[1])
            ELSE
                IF hasCYC
                THEN Join([k \in 1..Len(WMO) |-> prtcyc(st.CYC, WMO[k])], ";")
                ELSE Join([k \in 1..Len(WMO) |-> "WMO" \o FmtInt(WMO[k])], ";")
    ELSE IF "CYC" \in DOMAIN st THEN
        LET CYC == st.CYC
        IN  IF Len(CYC) = 1 THEN "CYC" \o FmtInt(CYC[1])
            ELSE Join([k \in 1..Len(CYC) |-> "CYC" \o FmtInt(CYC[k])], ";")
    ELSE "full"

\* mutant of cname: the dates of a 6-element BOX are left out
cname_no_dates(st) ==
    IF "BOX" \in DOMAIN st THEN
        LET BOX == st.BOX
        IN  "x=" \o FmtFloat2(BOX[1]) \o "/" \o FmtFloat2(BOX[2])
            \o ";y=" \o FmtFloat2(BOX[3]) \o "/" \o FmtFloat2(BOX[4])
    ELSE IF "WMO" \in DOMAIN st THEN
        LET WMO == st.WMO
            hasCYC == "CYC" \in DOMAIN st
        IN  IF Len(WMO) = 1 THEN
                IF hasCYC THEN prtcyc(st.CYC, WMO[1])
                ELSE "WMO" \o FmtInt(WMO[1])
            ELSE
                IF hasCYC
                THEN Join([k \in 1..Len(WMO) |-> prtcyc(st.CYC, WMO[k])], ";")
                ELSE Join([k \in 1..Len(WMO) |-> "WMO" \o FmtInt(sorted(WMO)[k])], ";")
    ELSE IF "CYC" \in DOMAIN st THEN
        LET CYC == st.CYC
        IN  IF Len(CYC) = 1 THEN "CYC" \o FmtInt(CYC[1])
            ELSE Join([k \in 1..Len(CYC) |-> "CYC" \o FmtInt(sorted(CYC)[k])], ";")
    ELSE "full"

cname(st) ==
    IF "BOX" \in DOMAIN st THEN
        LET BOX == st.BOX
            xy  == "x=" \o FmtFloat2(BOX[1]) \o "/" \o FmtFloat2(BOX[2])
                   \o ";y=" \o FmtFloat2(BOX[3]) \o "/" \o FmtFloat2(BOX[4])
        IN  IF Len(BOX) = 6
            THEN xy \o ";t=" \o _format_tim(BOX[5]) \o "/" \o _format_tim(BOX[6])
            ELSE xy
    ELSE IF "WMO" \in DOMAIN st THEN
        LET WMO == st.WMO
            hasCYC == "CYC" \in DOMAIN st
        IN  IF Len(WMO) = 1 THEN
                IF hasCYC THEN prtcyc(st.CYC, WMO[1])
                ELSE "WMO" \o FmtInt(WMO[1])
            ELSE
                IF hasCYC
                THEN Join([k \in 1..Len(WMO) |-> prtcyc(st.CYC, WMO[k])], ";")
                ELSE Join([k \in 1..Len(WMO) |-> "WMO" \o FmtInt(sorted(WMO)[k])], ";")
    ELSE IF "CYC" \in DOMAIN st THEN
        LET CYC == st.CYC
        IN  IF Len(CYC) = 1 THEN "CYC" \o FmtInt(CYC[1])
            ELSE Join([k \in 1..Len(CYC) |-> "CYC" \o FmtInt(sorted(CYC)[k])], ";")
    ELSE "full"

_sha_from(path) == path
sha_df(st) == _sha_from("pd-" \o cname(st))
sha_pq(st) == _sha_from("pq-" \o cname(st))

\* the fingerprint each backend uses: sha_pq in indexstore_pyarrow,
\* sha_df in indexstore_pandas
sha(st) == IF backend = "pyarrow" THEN sha_pq(st) ELSE sha_df(st)
sha_full == IF backend = "pyarrow" THEN _sha_from("pq-full")
            ELSE _sha_from("pd-full")

search_path(st) == host \o "/" \o index_file \o "." \o sha(st)

\* N_RECORDS / N_MATCH on a present attribute
N_RECORDS == shape0(index[1])
N_MATCH == shape0(search[1])

\* reading the properties N_RECORDS / N_MATCH in any state: the value
\* returned, or the exception raised
read_N_RECORDS ==
    IF hasattr(index) THEN [exc |-> "ok", value |-> Some(shape0(index[1]))]
    ELSE [exc |-> "InvalidDataset", value |-> None]

\* mutant of read_N_MATCH: 0 is returned when there is no Search
read_N_MATCH_sentinel ==
    IF hasattr(search) THEN [exc |-> "ok", value |-> Some(shape0(search[1]))]
    ELSE [exc |-> "ok", value |-> Some(0)]

read_N_MATCH ==
    IF hasattr(search) THEN [exc |-> "ok", value |-> Some(shape0(search[1]))]
    ELSE [exc |-> "InvalidDataset", value |-> None]

\* uri / uri_full_index
uri_of(t) == [k \in 1..shape0(t) |-> host \o "/dac/" \o t.rows[k].file]
\* mutant of uri: the list is built from Index instead of Search
uri_from_index == uri_of(index[1])

uri == uri_of(search[1])
uri_full_index == uri_of(index[1])

(***************************************************************************)
(* __init__                                                                *)
(***************************************************************************)
\* sub in s (Python substring test)
str_in(sub, s) ==
    \E i \in 1..(Len(s) - Len(sub) + 1) : SubSeq(s, i, i + Len(sub) - 1) = sub

\* split_protocol(host)[0]: the text before the first "://" if it is longer
\* than one character, None otherwise
split_protocol(urlpath) ==
    LET P == {i \in 1..(Len(urlpath) - 2) : SubSeq(urlpath, i, i + 2) = "://"}
    IN  IF P = {} THEN None
        ELSE LET i == CHOOSE i \in P : \A j \in P : i <= j
                 protocol == SubSeq(urlpath, 1, i - 1)
             IN  IF Len(protocol) > 1 THEN Some(protocol) ELSE None

\* the index files that exist on the backing stores
\* (self.fs['index'].exists(self.index_path))
IndexFiles ==
    {h \o "/" \o index_file :
        h \in {"/gdac", "https://data-argo.ifremer.fr",
               "https://argo.example.org", "http://data-argo.ifremer.fr",
               "ftp://ftp.ifremer.fr/ifremer/argo",
               "ftp://usgodae.org/pub/outgoing/argo",
               "ftp://ftp.example.org/argo", "s3://argo-gdac/pub"}}

\* mutant of __init__: the existence of the index file is not verified
__init___unverified(h) ==
    LET protocol == split_protocol(h)
    IN  IF protocol = None
        THEN [exc |-> "ok", store |-> "filestore"]
        ELSE IF str_in("https", protocol[1])
        THEN [exc |-> "ok", store |-> "httpstore"]
        ELSE IF str_in("ftp", protocol[1])
        THEN IF ~str_in("ifremer", h) /\ ~str_in("usgodae", h)
             THEN [exc |-> "FtpPathError", store |-> "none"]
             ELSE [exc |-> "ok", store |-> "ftpstore"]
        ELSE [exc |-> "FtpPathError", store |-> "none"]

\* The outcome of the constructor on host h: the kind of fs['index'] and the
\* exception raised ("ok" if none)
__init__(h) ==
    LET protocol == split_protocol(h)
        store == IF protocol = None THEN "filestore"
                 ELSE IF str_in("https", protocol[1]) THEN "httpstore"
                 ELSE IF str_in("ftp", protocol[1])
                 THEN IF ~str_in("ifremer", h) /\ ~str_in("usgodae", h)
                      THEN "none"       \* FtpPathError("Unknown Argo ftp")
                      ELSE "ftpstore"
                 ELSE "none"            \* FtpPathError("Unknown protocol")
        index_path == h \o "/" \o index_file
    IN  IF store = "none" THEN [exc |-> "FtpPathError", store |-> "none"]
        ELSE IF index_path \notin IndexFiles
        THEN [exc |-> "FtpPathError", store |-> "none"]
        ELSE [exc |-> "ok", store |-> store]

(***************************************************************************)
(* load                                                                    *)
(***************************************************************************)
\* mutant of lines_copied: the column-header line is not counted
lines_copied_no_header(rows, nrows) ==
    IF nrows # None
    THEN Min(nrows[1] + 8, PreambleLines + 1 + Len(rows))
    ELSE PreambleLines + 1 + Len(rows)

\* indexstore_pyarrow.load.read_csv: the number of lines of the index file
\* (8 preamble lines, the column-header line, the data rows) handed to the
\* parser: with nrows, the loop copies lines until nrows + 8 + 1 are copied
\* or the file ends
lines_copied(rows, nrows) ==
    IF nrows # None
    THEN Min(nrows[1] + 8 + 1, PreambleLines + 1 + Len(rows))
    ELSE PreambleLines + 1 + Len(rows)

\* indexstore_pyarrow.load.read_csv: csv.read_csv(skip_rows=8) on the lines
\* copied: the data rows that follow the preamble and the header line
read_csv_pyarrow(rows, nrows) ==
    SubSeq(rows, 1, Max(0, lines_copied(rows, nrows) - PreambleLines - 1))

\* indexstore_pandas.load.read_csv: pd.read_csv(..., skiprows=8, nrows=nrows)
read_csv_pandas(rows, nrows) ==
    IF nrows # None THEN SubSeq(rows, 1, Min(nrows[1], Len(rows))) ELSE rows

read_csv(rows, nrows) ==
    IF backend = "pyarrow" THEN read_csv_pyarrow(rows, nrows)
    ELSE read_csv_pandas(rows, nrows)

\* argopy.utilities.check_index_cols: whether the column names are those of
\* the convention of the index file (InvalidDatasetStructure is raised
\* otherwise)
check_index_cols(column_names) == column_names = IndexColumns

\* the table parsed from the index file: the columns named by its header line
parse(rows, cols) ==
    Table(cols,
          [k \in 1..Len(rows) |->
              [f \in {cols[j] : j \in 1..Len(cols)} |-> rows[k][f]]])

\* mutant of load_body: the raw index file is opened even when the .gz exists
load_body_raw(idx, reread, nrows) ==
    LET opened == IF ~reread THEN "none" ELSE "raw"
        this_table == parse(read_csv(gdac, nrows), header)
        checked == ~reread \/ check_index_cols(header)
        idx1   == IF reread /\ (backend = "pyarrow" \/ checked)
                  THEN Some(this_table)
                  ELSE idx
        n      == shape0(idx1[1])
    IN  IF ~checked
        THEN [index |-> idx1, exc |-> "InvalidDatasetStructure",
              opened |-> opened]
        ELSE IF n = 0
        THEN [index |-> idx1, exc |-> "DataNotFound", opened |-> opened]
        ELSE IF nrows # None /\ n # nrows[1]
        THEN [index |-> Some(slice0(idx1[1], nrows[1] - 1)), exc |-> "ok",
              opened |-> opened]
        ELSE [index |-> idx1, exc |-> "ok", opened |-> opened]

\* mutant of load_body: both backends check the columns of the parsed table
\* before it is assigned to self.index
load_body_check_first(idx, reread, nrows) ==
    LET opened == IF ~reread THEN "none"
                  ELSE IF gz_exists THEN "gz" ELSE "raw"
        this_table == parse(read_csv(gdac, nrows), header)
        checked == ~reread \/ check_index_cols(header)
        idx1   == IF reread /\ checked THEN Some(this_table) ELSE idx
        n      == shape0(idx1[1])
    IN  IF ~checked
        THEN [index |-> idx1, exc |-> "InvalidDatasetStructure",
              opened |-> opened]
        ELSE IF n = 0
        THEN [index |-> idx1, exc |-> "DataNotFound", opened |-> opened]
        ELSE IF nrows # None /\ n # nrows[1]
        THEN [index |-> Some(slice0(idx1[1], nrows[1] - 1)), exc |-> "ok",
              opened |-> opened]
        ELSE [index |-> idx1, exc |-> "ok", opened |-> opened]

\* The outcome of load(force, nrows) on a store whose index attribute is idx:
\* the index attribute afterwards, the exception raised ("ok" if none) and
\* the file that was opened ("none", "gz" or "raw").  reread is the guard
\* "not hasattr(self, 'index') or force" of the reading block.  pyarrow
\* assigns the parsed table to self.index and then checks its columns;
\* pandas checks the columns of the parsed table and then assigns it.
load_body(idx, reread, nrows) ==
    LET opened == IF ~reread THEN "none"
                  ELSE IF gz_exists THEN "gz" ELSE "raw"
        this_table == parse(read_csv(gdac, nrows), header)
        checked == ~reread \/ check_index_cols(header)
        idx1   == IF reread /\ (backend = "pyarrow" \/ checked)
                  THEN Some(this_table)
                  ELSE idx
        n      == shape0(idx1[1])
    IN  IF ~checked
        THEN [index |-> idx1, exc |-> "InvalidDatasetStructure",
              opened |-> opened]
        ELSE IF n = 0
        THEN [index |-> idx1, exc |-> "DataNotFound", opened |-> opened]
        ELSE IF nrows # None /\ n # nrows[1]
        THEN [index |-> Some(slice0(idx1[1], nrows[1] - 1)), exc |-> "ok",
              opened |-> opened]
        ELSE [index |-> idx1, exc |-> "ok", opened |-> opened]

\* mutant of load: the reading block runs on every call
load_always(idx, force, nrows) == load_body(idx, TRUE, nrows)

load(idx, force, nrows) == load_body(idx, ~hasattr(idx) \/ force, nrows)

(***************************************************************************)
(* Predicate builders of the search methods                                *)
(***************************************************************************)
\* pandas: str.contains(pattern, regex=True, case=False);
\* pyarrow: pa.compute.match_substring_regex(column, pattern)
match_substring_regex(file, pattern) ==
    regex_search(file, pattern, backend = "pandas")

\* np.logical_or.reduce over one pattern test per element of patterns
or_filter(t, patterns) ==
    [k \in 1..shape0(t) |->
        \E j \in 1..Len(patterns) :
            match_substring_regex(t.rows[k].file, patterns[j])]

wmo_patterns(WMOs) == [j \in 1..Len(WMOs) |-> "/" \o FmtInt(WMOs[j]) \o "/"]

\* mutant of cyc_pattern: every cycle number is padded to 4 digits
cyc_pattern_pad4(cyc) == "_" \o FmtIntPrec(cyc, 4) \o ".nc"

cyc_pattern(cyc) ==
    IF cyc < 1000 THEN "_" \o FmtIntPrec(cyc, 3) \o ".nc"
    ELSE "_" \o FmtIntPrec(cyc, 4) \o ".nc"
cyc_patterns(CYCs) == [j \in 1..Len(CYCs) |-> cyc_pattern(CYCs[j])]

wmo_cyc_pattern(wmo, cyc) ==
    IF cyc < 1000 THEN FmtInt(wmo) \o "_" \o FmtIntPrec(cyc, 3) \o ".nc"
    ELSE FmtInt(wmo) \o "_" \o FmtIntPrec(cyc, 4) \o ".nc"
wmo_cyc_patterns(WMOs, CYCs) ==
    [j \in 1..(Len(WMOs) * Len(CYCs)) |->
        wmo_cyc_pattern(WMOs[((j - 1) \div Len(CYCs)) + 1],
                        CYCs[((j - 1) % Len(CYCs)) + 1])]

tim_ok(r, BOX) == r.date >= BOX[5] /\ r.date <= BOX[6]
lat_lon_ok(r, BOX) ==
    /\ r.longitude >= BOX[1] /\ r.longitude <= BOX[2]
    /\ r.latitude >= BOX[3] /\ r.latitude <= BOX[4]

\* mutant of tim_filter: the bounds date_min and date_max are excluded
tim_filter_exclusive(t, BOX) ==
    [k \in 1..shape0(t) |-> t.rows[k].date > BOX[5] /\ t.rows[k].date < BOX[6]]

tim_filter(t, BOX) == [k \in 1..shape0(t) |-> tim_ok(t.rows[k], BOX)]
lat_lon_filter(t, BOX) == [k \in 1..shape0(t) |-> lat_lon_ok(t.rows[k], BOX)]
lat_lon_tim_filter(t, BOX) ==
    [k \in 1..shape0(t) |-> lat_lon_ok(t.rows[k], BOX) /\ tim_ok(t.rows[k], BOX)]

(***************************************************************************)
(* run                                                                     *)
(***************************************************************************)
\* DataFrame.reset_index(): the row labels become a leading column 'index'
reset_index(rows, labels) ==
    Table(<<"index">> \o IndexColumns,
          [k \in 1..Len(rows) |->
              [f \in DOMAIN rows[k] \cup {"index"} |->
                  IF f = "index" THEN labels[k] ELSE rows[k][f]]])

\* indexstore_pyarrow.run, the "compute from scratch" branch
compute_pyarrow(t, filt, nrows) ==
    LET this_filter == nonzero(filt)
        n_match     == Len(this_filter)
    IN  IF nrows # None /\ n_match > 0
        THEN LET positions == SubSeq(this_filter, 1, Min(nrows[1], n_match))
             IN  IF \E k \in 1..Len(positions) : positions[k] > shape0(t)
                 THEN [exc |-> "IndexError", search |-> t]
                 ELSE [exc |-> "ok",
                       search |-> Table(t.columns, take(t.rows, positions))]
        ELSE IF Len(filt) # shape0(t)
             THEN [exc |-> "ValueError", search |-> t]
             ELSE [exc |-> "ok",
                   search |-> Table(t.columns, take(t.rows, this_filter))]

\* indexstore_pandas.run, the "compute from scratch" branch
compute_pandas(t, filt, nrows) ==
    LET this_filter == nonzero(filt)
        n_match     == Len(this_filter)
    IN  IF nrows # None /\ n_match > 0
        THEN LET k == Min(Min(nrows[1], n_match), shape0(t))
             IN  [exc |-> "ok",
                  search |-> reset_index(SubSeq(t.rows, 1, k),
                                         [j \in 1..k |-> j - 1])]
        ELSE IF Len(filt) # shape0(t)
             THEN [exc |-> "ValueError", search |-> t]
             ELSE [exc |-> "ok",
                   search |-> reset_index(take(t.rows, this_filter),
                                 [j \in 1..n_match |-> this_filter[j] - 1])]

compute(t, filt, nrows) ==
    IF backend = "pyarrow" THEN compute_pyarrow(t, filt, nrows)
    ELSE compute_pandas(t, filt, nrows)

\* _write then _read on fs['search']
write(fs, path, obj) == (path :> obj) @@ fs
exists(fs, path) == path \in DOMAIN fs

\* mutant of run: an artifact already at search_path is not read but
\* overwritten with the result computed for this call
run_overwrite(t, filt, st, nrows, fs) ==
    LET c == compute(t, filt, nrows)
    IN  IF c.exc # "ok"
        THEN [exc |-> c.exc, search |-> c.search, fs |-> fs, hit |-> FALSE]
        ELSE IF cache /\ shape0(c.search) > 0
        THEN LET fs1 == write(fs, search_path(st), c.search)
             IN  [exc |-> "ok", search |-> fs1[search_path(st)],
                  fs |-> fs1, hit |-> FALSE]
        ELSE [exc |-> "ok", search |-> c.search, fs |-> fs, hit |-> FALSE]

\* mutant of run: an empty result is written to fs['search'] as well
run_write_empty(t, filt, st, nrows, fs) ==
    IF cache /\ exists(fs, search_path(st))
    THEN [exc |-> "ok", search |-> fs[search_path(st)], fs |-> fs, hit |-> TRUE]
    ELSE LET c == compute(t, filt, nrows)
         IN  IF c.exc # "ok"
             THEN [exc |-> c.exc, search |-> c.search, fs |-> fs, hit |-> FALSE]
             ELSE IF cache
             THEN LET fs1 == write(fs, search_path(st), c.search)
                  IN  [exc |-> "ok", search |-> fs1[search_path(st)],
                       fs |-> fs1, hit |-> FALSE]
             ELSE [exc |-> "ok", search |-> c.search, fs |-> fs, hit |-> FALSE]

\* mutant of run: the computed result is never written to fs['search']
run_nowrite(t, filt, st, nrows, fs) ==
    IF cache /\ exists(fs, search_path(st))
    THEN [exc |-> "ok", search |-> fs[search_path(st)], fs |-> fs, hit |-> TRUE]
    ELSE LET c == compute(t, filt, nrows)
         IN  [exc |-> c.exc, search |-> c.search, fs |-> fs, hit |-> FALSE]

\* mutant of run: fs['search'] is tested and read whatever self.cache is
run_cache_unguarded(t, filt, st, nrows, fs) ==
    IF exists(fs, search_path(st))
    THEN [exc |-> "ok", search |-> fs[search_path(st)], fs |-> fs, hit |-> TRUE]
    ELSE LET c == compute(t, filt, nrows)
         IN  IF c.exc # "ok"
             THEN [exc |-> c.exc, search |-> c.search, fs |-> fs, hit |-> FALSE]
             ELSE IF cache /\ shape0(c.search) > 0
             THEN LET fs1 == write(fs, search_path(st), c.search)
                  IN  [exc |-> "ok", search |-> fs1[search_path(st)],
                       fs |-> fs1, hit |-> FALSE]
             ELSE [exc |-> "ok", search |-> c.search, fs |-> fs, hit |-> FALSE]

\* The outcome of run(nrows) with index table t, predicate filt and
\* search_type st: the Search table, the artifacts of fs['search'], the
\* exception raised and whether the result came from the cache
run(t, filt, st, nrows, fs) ==
    IF cache /\ exists(fs, search_path(st))
    THEN [exc |-> "ok", search |-> fs[search_path(st)], fs |-> fs, hit |-> TRUE]
    ELSE LET c == compute(t, filt, nrows)
         IN  IF c.exc # "ok"
             THEN [exc |-> c.exc, search |-> c.search, fs |-> fs, hit |-> FALSE]
             ELSE IF cache /\ shape0(c.search) > 0
             THEN LET fs1 == write(fs, search_path(st), c.search)
                  IN  [exc |-> "ok", search |-> fs1[search_path(st)],
                       fs |-> fs1, hit |-> FALSE]
             ELSE [exc |-> "ok", search |-> c.search, fs |-> fs, hit |-> FALSE]

(***************************************************************************)
(* to_dataframe                                                            *)
(***************************************************************************)
\* int(s) for a string of decimal digits
RECURSIVE int(_)
int(s) ==
    IF Len(s) = 0 THEN 0
    ELSE 10 * int(SubSeq(s, 1, Len(s) - 1))
         + (CHOOSE d \in 0..9 : ToString(d) = Char(s, Len(s)))

\* argopy.utilities.load_dict / mapp_dict
institution_dictionnary ==
    ("AO" :> "AOML, USA") @@ ("IF" :> "Ifremer, France")
profiler_dictionnary == (846 :> "Webb Research, Seabird sensor")
mapp_dict(Adictionnary, Avalue) ==
    IF Avalue \in DOMAIN Adictionnary THEN Adictionnary[Avalue] ELSE "Unknown"

rename_col(c) == IF c = "institution" THEN "institution_code"
                 ELSE IF c = "profiler_type" THEN "profiler_code" ELSE c

\* the post-processing of to_dataframe ("Converting to dataframe from scratch")
export_row(r) ==
    [file |-> r.file, date |-> r.date, latitude |-> r.latitude,
     longitude |-> r.longitude, institution_code |-> r.institution,
     profiler_code |-> r.profiler_type, date_update |-> r.date_update,
     wmo |-> int(split(r.file)[2]),
     institution |-> mapp_dict(institution_dictionnary, r.institution),
     profiler |-> mapp_dict(profiler_dictionnary, r.profiler_type)]

\* mutant of export: the code columns are not renamed
export_norename(t, nrows) ==
    LET rows == IF nrows # None
                THEN SubSeq(t.rows, 1, Min(nrows[1], Len(t.rows)))
                ELSE t.rows
        cols == SelectSeq(t.columns, LAMBDA c : c # "index")
    IN  [columns |-> cols \o <<"wmo", "institution", "profiler">>,
         rows    |-> [k \in 1..Len(rows) |-> export_row(rows[k])],
         index   |-> [k \in 1..Len(rows) |-> k - 1]]

\* the exported table: its columns, its rows and its row index.  The source
\* has the row labels 0..n-1 (to_pandas(), read_csv, reset_index()), of which
\* df.loc[0:nrows-1] keeps the labels up to nrows-1; reset_index(drop=True)
\* then numbers the rows kept from 0.
export(t, nrows) ==
    LET labels == [k \in 1..Len(t.rows) |-> k - 1]
        keep == SelectSeq([k \in 1..Len(t.rows) |-> k],
                          LAMBDA k : nrows = None \/ labels[k] <= nrows[1] - 1)
        rows == [k \in 1..Len(keep) |-> t.rows[keep[k]]]
        cols == SelectSeq(t.columns, LAMBDA c : c # "index")
    IN  [columns |-> [k \in 1..Len(cols) |-> rename_col(cols[k])]
                         \o <<"wmo", "institution", "profiler">>,
         rows    |-> [k \in 1..Len(rows) |-> export_row(rows[k])],
         index   |-> [k \in 1..Len(rows) |-> k - 1]]

\* mutant of export_path: the row limit is not part of the path
export_path_nolimit(base, nrows) == base \o ".export"

export_path(base, nrows) ==
    IF nrows # None THEN base \o "/export." \o FmtInt(nrows[1])
    ELSE base \o ".export"

\* mutant of to_dataframe: the argument index is ignored, Search is the
\* source whenever it exists
to_dataframe_search_first(nrows, full) ==
    LET use_search == hasattr(search)
        nochange   == [index |-> index, exc |-> "ok", opened |-> "none"]
    IN  IF use_search /\ N_MATCH = 0
        THEN [exc |-> "DataNotFound", index |-> index, fs |-> fs_search,
              df |-> None, opened |-> "none", loaded |-> FALSE]
        ELSE
        LET L == IF use_search \/ hasattr(index) THEN nochange
                 ELSE load(index, FALSE, nrows)
            loaded == ~use_search /\ ~hasattr(index)
        IN  IF L.exc # "ok"
            THEN [exc |-> L.exc, index |-> L.index, fs |-> fs_search,
                  df |-> None, opened |-> L.opened, loaded |-> FALSE]
            ELSE
            LET src  == IF use_search THEN search[1] ELSE L.index[1]
                base == host \o "/" \o index_file \o "/"
                        \o (IF use_search THEN sha(search_type) ELSE sha_full)
                this_path == export_path(base, nrows)
            IN  IF cache /\ exists(fs_search, this_path)
                THEN [exc |-> "ok", index |-> L.index, fs |-> fs_search,
                      df |-> Some(fs_search[this_path]), opened |-> L.opened,
                      loaded |-> loaded]
                ELSE LET df  == export(src, nrows)
                         fs1 == IF cache THEN write(fs_search, this_path, df)
                                ELSE fs_search
                     IN  [exc |-> "ok", index |-> L.index, fs |-> fs1,
                          df |-> Some(IF cache THEN fs1[this_path] ELSE df),
                          opened |-> L.opened, loaded |-> loaded]

\* The outcome of to_dataframe(nrows, index=full) on the current store when
\* fs['search'] holds the artifacts fs
to_dataframe_on(fs, nrows, full) ==
    LET use_search == hasattr(search) /\ ~full
        nochange   == [index |-> index, exc |-> "ok", opened |-> "none"]
    IN  IF use_search /\ N_MATCH = 0
        THEN [exc |-> "DataNotFound", index |-> index, fs |-> fs,
              df |-> None, opened |-> "none", loaded |-> FALSE]
        ELSE
        LET L == IF use_search \/ hasattr(index) THEN nochange
                 ELSE load(index, FALSE, nrows)
            loaded == ~use_search /\ ~hasattr(index)
        IN  IF L.exc # "ok"
            THEN [exc |-> L.exc, index |-> L.index, fs |-> fs,
                  df |-> None, opened |-> L.opened, loaded |-> FALSE]
            ELSE
            LET src  == IF use_search THEN search[1] ELSE L.index[1]
                base == host \o "/" \o index_file \o "/"
                        \o (IF use_search THEN sha(search_type) ELSE sha_full)
                this_path == export_path(base, nrows)
            IN  IF cache /\ exists(fs, this_path)
                THEN [exc |-> "ok", index |-> L.index, fs |-> fs,
                      df |-> Some(fs[this_path]), opened |-> L.opened,
                      loaded |-> loaded]
                ELSE LET df  == export(src, nrows)
                         fs1 == IF cache THEN write(fs, this_path, df)
                                ELSE fs
                     IN  [exc |-> "ok", index |-> L.index, fs |-> fs1,
                          df |-> Some(IF cache THEN fs1[this_path] ELSE df),
                          opened |-> L.opened, loaded |-> loaded]

\* The outcome of to_dataframe(nrows, index=full) on the current store
to_dataframe(nrows, full) == to_dataframe_on(fs_search, nrows, full)

(***************************************************************************)
(* History: the latest call, and the observer of cache round trips         *)
(***************************************************************************)
\* the record of a call: the method, its arguments and its outcome.  flag is
\* force for load, index for to_dataframe, "served from the cache" for a
\* search method or run
Call(op, crit, nrows, flag, exc, opened, df) ==
    [op |-> op, crit |-> crit, nrows |-> nrows, flag |-> flag, exc |-> exc,
     opened |-> opened, df |-> df]

SearchOps == {"search_wmo", "search_cyc", "search_wmo_cyc", "search_tim",
              "search_lat_lon", "search_lat_lon_tim"}

Idle == [stage |-> "idle", op |-> "", crit |-> <<>>, nrows |-> None,
         search |-> None, df |-> None, trip |-> FALSE]

SameCall(m, c) == m.op = c.op /\ m.nrows = c.nrows /\ m.crit = c.crit

\* The observer follows one search through: computed and persisted ->
\* [to_dataframe] -> in-memory state discarded (a new store instance) -> the
\* same search again -> [to_dataframe], and through clear_cache -> the same
\* search again.  Any other call sends it back to idle.
Observe(m, c, s) ==
    IF c.op \in SearchOps THEN
        IF m.stage = "discarded" /\ SameCall(m, c)
        THEN [m EXCEPT !.stage = IF c.exc = "ok" THEN "reinvoked" ELSE "failed"]
        ELSE IF m.stage = "cleared" /\ SameCall(m, c)
        THEN [m EXCEPT !.stage = IF c.exc = "ok" THEN "recomputed" ELSE "failed"]
        ELSE IF c.exc = "ok" /\ cache /\ ~c.flag /\ shape0(s[1]) > 0
        THEN [stage |-> "persisted", op |-> c.op, crit |-> c.crit,
              nrows |-> c.nrows, search |-> s, df |-> None, trip |-> FALSE]
        ELSE Idle
    ELSE IF c.op = "to_dataframe" THEN
        IF m.stage = "persisted" /\ ~c.flag /\ c.exc = "ok"
        THEN [m EXCEPT !.stage = "exported", !.df = Some(<<c.nrows, c.df[1]>>)]
        ELSE IF m.stage = "reinvoked" /\ m.df # None /\ ~c.flag
                /\ c.nrows = m.df[1][1]
        THEN [m EXCEPT !.stage = IF c.exc = "ok" THEN "reexported" ELSE "failed",
                       !.trip = TRUE]
        ELSE Idle
    ELSE IF c.op = "__init__" THEN
        IF m.stage \in {"persisted", "exported"}
        THEN [m EXCEPT !.stage = "discarded"] ELSE Idle
    ELSE IF c.op = "clear_cache" THEN
        IF m.stage \notin {"idle", "failed"}
        THEN [m EXCEPT !.stage = "cleared"] ELSE Idle
    ELSE Idle

(***************************************************************************)
(* The calls                                                               *)
(***************************************************************************)
\* no data fetcher is in use
NoFetcher == [dataset_id |-> "", URIs |-> <<>>, new_uri |-> None]

\* no thread has called a search method: pc is the position of each thread,
\* call its search call, overlapped whether a thread took a step while the
\* other was inside its call, typed_by the thread that assigned search_type
\* last
NoCall == [op |-> "", crit |-> <<>>]
NoThreads == [pc |-> <<"idle", "idle">>, call |-> <<NoCall, NoCall>>,
              overlapped |-> FALSE, typed_by |-> 0]

\* the attributes of a store on which nothing was called yet
TwinUnloaded == [index |-> None, search |-> None, search_type |-> NoSearchType,
                 search_filter |-> None, exc |-> "ok"]

Unloaded ==
    /\ fs_index = Some([host |-> host, store |-> "filestore"])
    /\ header = IndexColumns
    /\ twin = TwinUnloaded
    /\ threads = NoThreads
    /\ fetcher = NoFetcher
    /\ index = None
    /\ search = None
    /\ search_type = NoSearchType
    /\ search_filter = None
    /\ fs_search = [p \in {} |-> <<>>]
    /\ load_nrows = None
    /\ last = Call("__init__", <<>>, None, FALSE, "ok", "none", None)
    /\ rt = Idle

\* no store object has been constructed yet
NoStore ==
    /\ fs_index = None
    /\ header = IndexColumns
    /\ twin = TwinUnloaded
    /\ threads = NoThreads
    /\ fetcher = NoFetcher
    /\ index = None
    /\ search = None
    /\ search_type = NoSearchType
    /\ search_filter = None
    /\ fs_search = [p \in {} |-> <<>>]
    /\ load_nrows = None
    /\ last = Call("", <<>>, None, FALSE, "ok", "none", None)
    /\ rt = Idle

\* idx = indexstore(host=h): when the constructor raises, no object is
\* returned and idx stays what it was
Instantiate(h) ==
    LET I == __init__(h)
    IN  /\ last' = Call("__init__", [host |-> h], None, FALSE, I.exc, "none",
                        None)
        /\ IF I.exc = "ok"
           THEN /\ fs_index' = Some([host |-> h, store |-> I.store])
                /\ index' = None
                /\ search' = None
                /\ search_type' = NoSearchType
                /\ search_filter' = None
                /\ load_nrows' = None
           ELSE UNCHANGED <<fs_index, index, search, search_type,
                            search_filter, load_nrows>>
        /\ UNCHANGED <<fetcher, threads, twin, backend, cache, gz_exists, gdac, header, fs_search>>
        /\ rt' = Observe(rt, last', search')

\* a further store instance on the same host, sharing fs['search']
NewStore ==
    /\ index' = None
    /\ search' = None
    /\ search_type' = NoSearchType
    /\ search_filter' = None
    /\ load_nrows' = None
    /\ last' = Call("__init__", <<>>, None, FALSE, "ok", "none", None)
    /\ UNCHANGED <<fetcher, threads, twin, fs_index, backend, cache, gz_exists, gdac, header, fs_search>>
    /\ rt' = Observe(rt, last', search')

\* a further store instance on the same host constructed with cache=c; the
\* memory file system behind fs['search'] is the one of the earlier instances
NewStoreWith(c) ==
    /\ cache' = c
    /\ index' = None
    /\ search' = None
    /\ search_type' = NoSearchType
    /\ search_filter' = None
    /\ load_nrows' = None
    /\ last' = Call("__init__", [cache |-> c], None, FALSE, "ok", "none", None)
    /\ UNCHANGED <<fetcher, threads, twin, fs_index, backend, gz_exists, gdac, header,
                   fs_search>>
    /\ rt' = Observe(rt, last', search')

\* the GDAC publishes the index file anew, with the column-header line cols
GdacUpdate(cols) ==
    /\ header' = cols
    /\ UNCHANGED <<fetcher, threads, twin, fs_index, backend, cache,
                   gz_exists, gdac, index, search, search_type, search_filter,
                   fs_search, load_nrows, last, rt>>

\* mutant of Load: a forced reload also discards Search and the artifacts of
\* fs['search']
Load_invalidating(force, nrows) ==
    LET L == load(index, force, nrows)
    IN  /\ index' = L.index
        /\ load_nrows' = IF L.exc = "ok" THEN Some(nrows) ELSE load_nrows
        /\ last' = Call("load", <<>>, nrows, force, L.exc, L.opened, None)
        /\ search' = IF force THEN None ELSE search
        /\ fs_search' = IF force THEN [p \in {} |-> <<>>] ELSE fs_search
        /\ UNCHANGED <<fetcher, threads, twin, fs_index, backend, cache,
                       gz_exists, gdac, header, search_type, search_filter>>
        /\ rt' = Observe(rt, last', search')

\* idx.load(force, nrows)
Load(force, nrows) ==
    LET L == load(index, force, nrows)
    IN  /\ index' = L.index
        /\ load_nrows' = IF L.exc = "ok" THEN Some(nrows) ELSE load_nrows
        /\ last' = Call("load", <<>>, nrows, force, L.exc, L.opened, None)
        /\ UNCHANGED <<fetcher, threads, twin, fs_index, backend, cache, gz_exists, gdac, header, search, search_type,
                       search_filter, fs_search>>
        /\ rt' = Observe(rt, last', search')

\* the Index a search method builds its predicate on: self.index after its
\* call self.load()
loaded == load(index, FALSE, None).index[1]

\* the body shared by the six search methods: load(), set search_type, set
\* search_filter to the predicate filt built on the loaded Index, run(nrows)
SearchMethod(op, st, nrows, filt) ==
    LET L == load(index, FALSE, None)
    IN  /\ IF L.exc # "ok"
           THEN /\ index' = L.index
                /\ last' = Call(op, st, nrows, FALSE, L.exc, L.opened, None)
                /\ UNCHANGED <<search, search_type, search_filter, fs_search,
                               load_nrows>>
           ELSE LET R == run(L.index[1], filt, st, nrows, fs_search)
                IN  /\ index' = L.index
                    /\ load_nrows' = Some(None)
                    /\ search_type' = st
                    /\ search_filter' = Some(filt)
                    /\ search' = IF R.exc = "ok" THEN Some(R.search) ELSE search
                    /\ fs_search' = R.fs
                    /\ last' = Call(op, st, nrows, R.hit, R.exc, L.opened, None)
        /\ UNCHANGED <<fetcher, threads, twin, fs_index, backend, cache, gz_exists, gdac, header>>
        /\ rt' = Observe(rt, last', search')

\* argopy.utilities.check_wmo, check_cyc, is_indexbox: whether the argument
\* is accepted (a rejected argument raises ValueError)
check_wmo(WMOs) ==
    \A k \in 1..Len(WMOs) :
        WMOs[k] > 0 /\ Len(ToString(WMOs[k])) \in {5, 7}

check_cyc(CYCs) == \A k \in 1..Len(CYCs) : CYCs[k] >= 0 /\ CYCs[k] <= 9999

is_indexbox(BOX) ==
    /\ Len(BOX) \in {4, 6}
    /\ BOX[1] >= -180000 /\ BOX[2] <= 180000 /\ BOX[1] <= BOX[2]
    /\ BOX[3] >= -90000 /\ BOX[4] <= 90000 /\ BOX[3] <= BOX[4]
    /\ Len(BOX) = 6 => BOX[5] <= BOX[6]

\* mutant of Rejects: the argument is checked after load() and after
\* search_type was assigned
Rejects_late(op, crit, nrows) ==
    LET L == load(index, FALSE, None)
    IN  /\ index' = L.index
        /\ load_nrows' = IF L.exc = "ok" THEN Some(None) ELSE load_nrows
        /\ search_type' = IF L.exc = "ok" THEN crit ELSE search_type
        /\ last' = Call(op, crit, nrows, FALSE,
                        IF L.exc = "ok" THEN "ValueError" ELSE L.exc,
                        L.opened, None)
        /\ UNCHANGED <<fetcher, threads, twin, fs_index, backend, cache,
                       gz_exists, gdac, header, search, search_filter, fs_search>>
        /\ rt' = Observe(rt, last', search')

\* a search method whose first statement (check_wmo, check_cyc, is_indexbox)
\* raises: nothing else of the method is executed
Rejects(op, crit, nrows) ==
    /\ last' = Call(op, crit, nrows, FALSE, "ValueError", "none", None)
    /\ UNCHANGED <<fetcher, threads, twin, fs_index, backend, cache,
                   gz_exists, gdac, header, index, search, search_type, search_filter,
                   fs_search, load_nrows>>
    /\ rt' = Observe(rt, last', search')

search_wmo(WMOs, nrows) ==
    IF ~check_wmo(WMOs) THEN Rejects("search_wmo", [WMO |-> WMOs], nrows)
    ELSE SearchMethod("search_wmo", [WMO |-> WMOs], nrows,
                      or_filter(loaded, wmo_patterns(WMOs)))

search_cyc(CYCs, nrows) ==
    IF ~check_cyc(CYCs) THEN Rejects("search_cyc", [CYC |-> CYCs], nrows)
    ELSE SearchMethod("search_cyc", [CYC |-> CYCs], nrows,
                      or_filter(loaded, cyc_patterns(CYCs)))

search_wmo_cyc(WMOs, CYCs, nrows) ==
    IF ~check_wmo(WMOs) \/ ~check_cyc(CYCs)
    THEN Rejects("search_wmo_cyc", [WMO |-> WMOs, CYC |-> CYCs], nrows)
    ELSE SearchMethod("search_wmo_cyc", [WMO |-> WMOs, CYC |-> CYCs], nrows,
                      or_filter(loaded, wmo_cyc_patterns(WMOs, CYCs)))

search_lat_lon(BOX, nrows) ==
    IF ~is_indexbox(BOX) THEN Rejects("search_lat_lon", [BOX |-> BOX], nrows)
    ELSE SearchMethod("search_lat_lon", [BOX |-> BOX], nrows,
                      lat_lon_filter(loaded, BOX))

\* BOX[4] and BOX[5] of a 4-element box raise IndexError after load() and
\* after search_type was set
BoxTimMethod(op, BOX, nrows, filt) ==
    IF Len(BOX) = 6 THEN SearchMethod(op, [BOX |-> BOX], nrows, filt)
    ELSE LET L == load(index, FALSE, None)
         IN  /\ index' = L.index
             /\ load_nrows' = IF L.exc = "ok" THEN Some(None) ELSE load_nrows
             /\ search_type' = IF L.exc = "ok" THEN [BOX |-> BOX]
                               ELSE search_type
             /\ last' = Call(op, [BOX |-> BOX], nrows, FALSE,
                             IF L.exc = "ok" THEN "IndexError" ELSE L.exc,
                             L.opened, None)
             /\ UNCHANGED <<fetcher, threads, twin, fs_index, backend, cache,
                            gz_exists, gdac, header, search, search_filter, fs_search>>
             /\ rt' = Observe(rt, last', search')

search_tim(BOX, nrows) ==
    IF ~is_indexbox(BOX) THEN Rejects("search_tim", [BOX |-> BOX], nrows)
    ELSE BoxTimMethod("search_tim", BOX, nrows, tim_filter(loaded, BOX))

search_lat_lon_tim(BOX, nrows) ==
    IF ~is_indexbox(BOX)
    THEN Rejects("search_lat_lon_tim", [BOX |-> BOX], nrows)
    ELSE BoxTimMethod("search_lat_lon_tim", BOX, nrows,
                      lat_lon_tim_filter(loaded, BOX))

\* idx.run(nrows), called directly
Run(nrows) ==
    /\ IF cache /\ exists(fs_search, search_path(search_type))
       THEN /\ search' = Some(fs_search[search_path(search_type)])
            /\ last' = Call("run", search_type, nrows, TRUE, "ok", "none", None)
            /\ UNCHANGED fs_search
       ELSE IF ~hasattr(search_filter) \/ ~hasattr(index)
       THEN /\ last' = Call("run", search_type, nrows, FALSE, "AttributeError",
                            "none", None)
            /\ UNCHANGED <<search, fs_search>>
       ELSE LET R == run(index[1], search_filter[1], search_type, nrows,
                         fs_search)
            IN  /\ search' = IF R.exc = "ok" THEN Some(R.search) ELSE search
                /\ fs_search' = R.fs
                /\ last' = Call("run", search_type, nrows, R.hit, R.exc,
                                "none", None)
    /\ UNCHANGED <<fetcher, threads, twin, fs_index, backend, cache, gz_exists, gdac, header, index, search_type,
                   search_filter, load_nrows>>
    /\ rt' = Observe(rt, last', search')

\* idx.to_dataframe(nrows, index=full)
ToDataframe(nrows, full) ==
    LET D == to_dataframe(nrows, full)
    IN  /\ index' = D.index
        /\ fs_search' = D.fs
        /\ load_nrows' = IF D.loaded THEN Some(nrows) ELSE load_nrows
        /\ last' = Call("to_dataframe", search_type, nrows, full, D.exc,
                        D.opened, D.df)
        /\ UNCHANGED <<fetcher, threads, twin, fs_index, backend, cache, gz_exists, gdac, header, search, search_type,
                       search_filter>>
        /\ rt' = Observe(rt, last', search')

\* idx.clear_cache()
clear_cache ==
    /\ fs_search' = [p \in {} |-> <<>>]
    /\ last' = Call("clear_cache", <<>>, None, FALSE, "ok", "none", None)
    /\ UNCHANGED <<fetcher, threads, twin, fs_index, backend, cache, gz_exists, gdac, header, index, search,
                   search_type, search_filter, load_nrows>>
    /\ rt' = Observe(rt, last', search')

(***************************************************************************)
(* Two stores side by side: the store above is an indexstore_pyarrow, twin *)
(* an indexstore_pandas on the same index file, both with cache=False      *)
(***************************************************************************)
\* indexstore_pandas.load on the attribute idx of the twin
pandas_load(idx, force, nrows) ==
    LET reread == ~hasattr(idx) \/ force
        idx1   == IF reread
                  THEN Some(Table(IndexColumns, read_csv_pandas(gdac, nrows)))
                  ELSE idx
        n      == shape0(idx1[1])
    IN  IF n = 0 THEN [index |-> idx1, exc |-> "DataNotFound"]
        ELSE IF nrows # None /\ n # nrows[1]
        THEN [index |-> Some(slice0(idx1[1], nrows[1] - 1)), exc |-> "ok"]
        ELSE [index |-> idx1, exc |-> "ok"]

\* the Index the twin builds its predicate on
pandas_loaded == pandas_load(twin.index, FALSE, None).index[1]

\* indexstore_pandas: one str.contains(pattern, regex=True, case=False) per
\* pattern, reduced with logical_or
pandas_or_filter(t, patterns) ==
    [k \in 1..shape0(t) |->
        \E j \in 1..Len(patterns) :
            regex_search(t.rows[k].file, patterns[j], TRUE)]

\* a search method of indexstore_pandas (cache=False) on the twin
pandas_search(st, nrows, filt) ==
    LET T == pandas_load(twin.index, FALSE, None)
    IN  IF T.exc # "ok" THEN [twin EXCEPT !.index = T.index, !.exc = T.exc]
        ELSE LET c == compute_pandas(T.index[1], filt, nrows)
             IN  [index |-> T.index, search_type |-> st,
                  search_filter |-> Some(filt),
                  search |-> IF c.exc = "ok" THEN Some(c.search)
                             ELSE twin.search,
                  exc |-> c.exc]

\* indexstore_pandas.run (cache=False) on the twin
pandas_run(nrows) ==
    IF ~hasattr(twin.search_filter) \/ ~hasattr(twin.index)
    THEN [twin EXCEPT !.exc = "AttributeError"]
    ELSE LET c == compute_pandas(twin.index[1], twin.search_filter[1], nrows)
         IN  [twin EXCEPT !.search = IF c.exc = "ok" THEN Some(c.search) ELSE @,
                          !.exc = c.exc]

\* load(force, nrows) called on both stores
PairLoad(force, nrows) ==
    LET L == load(index, force, nrows)
        T == pandas_load(twin.index, force, nrows)
    IN  /\ index' = L.index
        /\ load_nrows' = IF L.exc = "ok" THEN Some(nrows) ELSE load_nrows
        /\ last' = Call("load", <<>>, nrows, force, L.exc, L.opened, None)
        /\ twin' = [twin EXCEPT !.index = T.index, !.exc = T.exc]
        /\ UNCHANGED <<fetcher, threads, fs_index, backend, cache, gz_exists, gdac, header, search,
                       search_type, search_filter, fs_search>>
        /\ rt' = Observe(rt, last', search')

\* one search method called on both stores, with the predicate each backend
\* builds on its own Index
PairSearch(op, st, nrows, filt, pandas_filt) ==
    LET L == load(index, FALSE, None)
    IN  /\ IF L.exc # "ok"
           THEN /\ index' = L.index
                /\ last' = Call(op, st, nrows, FALSE, L.exc, L.opened, None)
                /\ UNCHANGED <<search, search_type, search_filter, fs_search,
                               load_nrows>>
           ELSE LET R == run(L.index[1], filt, st, nrows, fs_search)
                IN  /\ index' = L.index
                    /\ load_nrows' = Some(None)
                    /\ search_type' = st
                    /\ search_filter' = Some(filt)
                    /\ search' = IF R.exc = "ok" THEN Some(R.search) ELSE search
                    /\ fs_search' = R.fs
                    /\ last' = Call(op, st, nrows, R.hit, R.exc, L.opened, None)
        /\ twin' = pandas_search(st, nrows, pandas_filt)
        /\ UNCHANGED <<fetcher, threads, fs_index, backend, cache, gz_exists, gdac, header>>
        /\ rt' = Observe(rt, last', search')

Pair_search_wmo(WMOs, nrows) ==
    PairSearch("search_wmo", [WMO |-> WMOs], nrows,
               or_filter(loaded, wmo_patterns(WMOs)),
               pandas_or_filter(pandas_loaded, wmo_patterns(WMOs)))

Pair_search_cyc(CYCs, nrows) ==
    PairSearch("search_cyc", [CYC |-> CYCs], nrows,
               or_filter(loaded, cyc_patterns(CYCs)),
               pandas_or_filter(pandas_loaded, cyc_patterns(CYCs)))

Pair_search_lat_lon(BOX, nrows) ==
    PairSearch("search_lat_lon", [BOX |-> BOX], nrows,
               lat_lon_filter(loaded, BOX), lat_lon_filter(pandas_loaded, BOX))

\* run(nrows) called directly on both stores
PairRun(nrows) ==
    /\ IF ~hasattr(search_filter) \/ ~hasattr(index)
       THEN /\ last' = Call("run", search_type, nrows, FALSE, "AttributeError",
                            "none", None)
            /\ UNCHANGED <<search, fs_search>>
       ELSE LET R == run(index[1], search_filter[1], search_type, nrows,
                         fs_search)
            IN  /\ search' = IF R.exc = "ok" THEN Some(R.search) ELSE search
                /\ fs_search' = R.fs
                /\ last' = Call("run", search_type, nrows, R.hit, R.exc,
                                "none", None)
    /\ twin' = pandas_run(nrows)
    /\ UNCHANGED <<fetcher, threads, fs_index, backend, cache, gz_exists, gdac, header, index,
                   search_type, search_filter, load_nrows>>
    /\ rt' = Observe(rt, last', search')

(***************************************************************************)
(* Two threads calling search methods on one store.  A thread goes through *)
(* its search method and through run() one statement at a time; the other  *)
(* thread may take steps in between.                                       *)
(***************************************************************************)
Threads == {1, 2}
other(t) == 3 - t
InCall(t) == threads.pc[t] \notin {"idle", "done", "failed"}

\* thread t moves to position pc
Advance(t, pc) ==
    [threads EXCEPT !.pc[t] = pc,
                    !.overlapped = @ \/ InCall(other(t))]

\* the predicate a search call builds on the Index table t
filter_of(c, t) ==
    CASE c.op = "search_wmo" -> or_filter(t, wmo_patterns(c.crit.WMO))
      [] c.op = "search_lat_lon" -> lat_lon_filter(t, c.crit.BOX)
      [] c.op = "search_tim" -> tim_filter(t, c.crit.BOX)

\* thread t enters the search method c
T_call(t, c) ==
    /\ threads.pc[t] = "idle"
    /\ threads' = [Advance(t, "load") EXCEPT !.call[t] = c]
    /\ UNCHANGED <<fetcher, twin, fs_index, backend, cache, gz_exists, gdac, header, index,
                   search, search_type, search_filter, fs_search, load_nrows,
                   last, rt>>

\* self.load()
T_load(t) ==
    /\ threads.pc[t] = "load"
    /\ index' = load(index, FALSE, None).index
    /\ load_nrows' = Some(None)
    /\ threads' = Advance(t, "search_type")
    /\ UNCHANGED <<fetcher, twin, fs_index, backend, cache, gz_exists, gdac, header, search,
                   search_type, search_filter, fs_search, last, rt>>

\* self.search_type = {...}
T_search_type(t) ==
    /\ threads.pc[t] = "search_type"
    /\ search_type' = threads.call[t].crit
    /\ threads' = [Advance(t, "search_filter") EXCEPT !.typed_by = t]
    /\ UNCHANGED <<fetcher, twin, fs_index, backend, cache, gz_exists, gdac, header, index,
                   search, search_filter, fs_search, load_nrows, last, rt>>

\* self.search_filter = np.logical_xx.reduce(filt)
T_search_filter(t) ==
    /\ threads.pc[t] = "search_filter"
    /\ search_filter' = Some(filter_of(threads.call[t], index[1]))
    /\ threads' = Advance(t, "exists")
    /\ UNCHANGED <<fetcher, twin, fs_index, backend, cache, gz_exists, gdac, header, index,
                   search, search_type, fs_search, load_nrows, last, rt>>

\* run: if self.cache and self.fs['search'].exists(self.search_path)
T_exists(t) ==
    /\ threads.pc[t] = "exists"
    /\ threads' = Advance(t, IF cache /\ exists(fs_search,
                                                search_path(search_type))
                             THEN "read" ELSE "compute")
    /\ UNCHANGED <<fetcher, twin, fs_index, backend, cache, gz_exists, gdac, header, index,
                   search, search_type, search_filter, fs_search, load_nrows,
                   last, rt>>

\* the record of the call of thread t when it ends
Ended(t, hit, exc) ==
    Call(threads.call[t].op, threads.call[t].crit, None, hit, exc, "none",
         None)

\* run: self.search = self._read(self.fs['search'].fs, self.search_path);
\* search_path is evaluated again, on the search_type of this moment
T_read(t) ==
    /\ threads.pc[t] = "read"
    /\ IF exists(fs_search, search_path(search_type))
       THEN /\ search' = Some(fs_search[search_path(search_type)])
            /\ threads' = Advance(t, "done")
            /\ last' = Ended(t, TRUE, "ok")
       ELSE /\ threads' = Advance(t, "failed")
            /\ last' = Ended(t, TRUE, "FileNotFoundError")
            /\ UNCHANGED search
    /\ UNCHANGED <<fetcher, twin, fs_index, backend, cache, gz_exists, gdac, header, index,
                   search_type, search_filter, fs_search, load_nrows, rt>>

\* run: self.search = self.index.take(...) / self.index.filter(...)
T_compute(t) ==
    /\ threads.pc[t] = "compute"
    /\ LET c == compute(index[1], search_filter[1], None)
       IN  IF c.exc = "ok"
           THEN /\ search' = Some(c.search)
                /\ threads' = Advance(t, "write")
                /\ UNCHANGED last
           ELSE /\ threads' = Advance(t, "failed")
                /\ last' = Ended(t, FALSE, c.exc)
                /\ UNCHANGED search
    /\ UNCHANGED <<fetcher, twin, fs_index, backend, cache, gz_exists, gdac, header, index,
                   search_type, search_filter, fs_search, load_nrows, rt>>

\* run: if self.cache and self.search.shape[0] > 0:
\*          self._write(self.fs['search'], self.search_path, self.search)
T_write(t) ==
    /\ threads.pc[t] = "write"
    /\ IF cache /\ shape0(search[1]) > 0
       THEN /\ fs_search' = write(fs_search, search_path(search_type),
                                  search[1])
            /\ threads' = Advance(t, "readback")
            /\ UNCHANGED last
       ELSE /\ threads' = Advance(t, "done")
            /\ last' = Ended(t, FALSE, "ok")
            /\ UNCHANGED fs_search
    /\ UNCHANGED <<fetcher, twin, fs_index, backend, cache, gz_exists, gdac, header, index,
                   search, search_type, search_filter, load_nrows, rt>>

\* run: self.search = self._read(self.fs['search'].fs, self.search_path)
T_readback(t) ==
    /\ threads.pc[t] = "readback"
    /\ IF exists(fs_search, search_path(search_type))
       THEN /\ search' = Some(fs_search[search_path(search_type)])
            /\ threads' = Advance(t, "done")
            /\ last' = Ended(t, FALSE, "ok")
       ELSE /\ threads' = Advance(t, "failed")
            /\ last' = Ended(t, FALSE, "FileNotFoundError")
            /\ UNCHANGED search
    /\ UNCHANGED <<fetcher, twin, fs_index, backend, cache, gz_exists, gdac, header, index,
                   search_type, search_filter, fs_search, load_nrows, rt>>

(***************************************************************************)
(* FTPArgoDataFetcher.uri_mono2multi (argopy/data_fetchers/gdacftp_data.py) *)
(***************************************************************************)
\* the position of the path element 'dac' in the elements of a path
dac_at(parts) == CHOOSE i \in 1..Len(parts) : parts[i] = "dac"

\* argopy.utilities.argo_split_path: the origin, the dac and the wmo of
\* a path <origin>/dac/<dac>/<wmo>/profiles/<file>
argo_split_path(path) ==
    LET parts == split(path)
        i     == dac_at(parts)
    IN  [origin |-> Join(SubSeq(parts, 1, i - 1), "/"),
         dac    |-> parts[i + 1],
         wmo    |-> parts[i + 2]]

mono2multi(mono_path, dataset_id) ==
    LET meta == argo_split_path(mono_path)
    IN  IF dataset_id = "phy"
        THEN Join(<<meta.origin, "dac", meta.dac, meta.wmo,
                    meta.wmo \o "_prof.nc">>, "/")
        ELSE Join(<<meta.origin, "dac", meta.dac, meta.wmo,
                    meta.wmo \o "_Sprof.nc">>, "/")

\* list(set(xs)): the elements of xs, each once, in any order
list_set(S) ==
    {l \in [1..Cardinality(S) -> S] :
        \A i, j \in 1..Cardinality(S) : i # j => l[i] # l[j]}

\* mutant of uri_mono2multi: the list is returned as rewritten
uri_mono2multi_as_rewritten(URIs, dataset_id) ==
    {[k \in 1..Len(URIs) |-> mono2multi(URIs[k], dataset_id)]}

\* the lists uri_mono2multi(URIs) may return (the order of list(set(...)) is
\* not determined)
uri_mono2multi(URIs, dataset_id) ==
    list_set({mono2multi(URIs[k], dataset_id) : k \in 1..Len(URIs)})

\* fetcher.uri_mono2multi(URIs)
Uri_mono2multi ==
    /\ fetcher.new_uri = None
    /\ \E new_uri \in uri_mono2multi(fetcher.URIs, fetcher.dataset_id) :
           fetcher' = [fetcher EXCEPT !.new_uri = Some(new_uri)]
    /\ UNCHANGED <<threads, twin, fs_index, backend, cache, gz_exists, gdac, header,
                   index, search, search_type, search_filter, fs_search,
                   load_nrows, last, rt>>

(***************************************************************************)
(* Fetch_box (argopy/data_fetchers/gdacftp_data.py)                        *)
(***************************************************************************)
MaxMonoFiles == 25

\* self.indexBOX: [lon_min, lon_max, lat_min, lat_max] of a 6-element box,
\* with [datim_min, datim_max] appended from an 8-element box
indexBOX(box) ==
    IF Len(box) = 8 THEN SubSeq(box, 1, 4) \o SubSeq(box, 7, 8)
    ELSE SubSeq(box, 1, 4)

\* self.indexfs.search_latlon(BOX).uri / search_latlontim(BOX).uri: the URIs
\* of the rows of the index file within the box, bounds included
search_latlon_uri(BOX) ==
    uri_of(Table(IndexColumns, SelectSeq(gdac, LAMBDA r : lat_lon_ok(r, BOX))))

search_latlontim_uri(BOX) ==
    uri_of(Table(IndexColumns,
                 SelectSeq(gdac, LAMBDA r : lat_lon_ok(r, BOX) /\ tim_ok(r, BOX))))

\* Fetch_box.uri, first evaluation: the possible values of
\* _list_of_argo_files with the value of _post_filter_points
Fetch_box_uri(box, dataset_id) ==
    LET URIs == IF Len(indexBOX(box)) = 4 THEN search_latlon_uri(indexBOX(box))
                ELSE search_latlontim_uri(indexBOX(box))
    IN  IF Len(URIs) > MaxMonoFiles
        THEN {[files |-> l, post_filter_points |-> TRUE] :
                 l \in uri_mono2multi(URIs, dataset_id)}
        ELSE {[files |-> URIs, post_filter_points |-> FALSE]}

\* a point of a dataset
Point(lon, lat, pres, time) ==
    [LONGITUDE |-> lon, LATITUDE |-> lat, PRES |-> pres, TIME |-> time]

\* FTPArgoDataFetcher.filter_points(ds) on a fetcher with attribute BOX
filter_points(BOX, ds) ==
    SelectSeq(ds, LAMBDA p :
        /\ p.LONGITUDE >= BOX[1] /\ p.LONGITUDE < BOX[2]
        /\ p.LATITUDE >= BOX[3] /\ p.LATITUDE < BOX[4]
        /\ p.PRES >= BOX[5] /\ p.PRES < BOX[6]
        /\ Len(BOX) = 8 => (p.TIME >= BOX[7] /\ p.TIME < BOX[8]))

\* Fetch_box(box): init assigns BOX and indexBOX and evaluates uri
Fetch_box_init ==
    /\ fetcher.list_of_argo_files = None
    /\ \E u \in Fetch_box_uri(fetcher.BOX, fetcher.dataset_id) :
           fetcher' = [fetcher EXCEPT !.list_of_argo_files = Some(u.files),
                                      !.post_filter_points = u.post_filter_points]
    /\ UNCHANGED <<threads, twin, fs_index, backend, cache, gz_exists, gdac, header,
                   index, search, search_type, search_filter, fs_search,
                   load_nrows, last, rt>>

\* fetcher.to_xarray(): the points of the files opened, post-filtered when
\* _post_filter_points is set
To_xarray ==
    /\ fetcher.list_of_argo_files # None
    /\ fetcher.ds = None
    /\ fetcher' = [fetcher EXCEPT !.ds =
                      Some(IF fetcher.post_filter_points
                           THEN filter_points(fetcher.BOX, fetcher.points)
                           ELSE fetcher.points)]
    /\ UNCHANGED <<threads, twin, fs_index, backend, cache, gz_exists, gdac, header,
                   index, search, search_type, search_filter, fs_search,
                   load_nrows, last, rt>>

(***************************************************************************)
(* Arguments of the calls                                                  *)
(***************************************************************************)
NrowsArgs == {None} \cup {Some(n) : n \in 1..MaxNrows}
Box4 == <<-60000, -55000, 40000, 45000>>
Box6 == <<-60000, -55000, 40000, 45000, 20070801, 20070815>>

(***************************************************************************)
(* SpecLoad: loading, reloading and truncating the index                   *)
(***************************************************************************)
InitLoad ==
    /\ backend \in {"pyarrow", "pandas"}
    /\ cache = FALSE
    /\ gz_exists \in BOOLEAN
    /\ gdac \in {ProfRows, SubSeq(ProfRows, 1, 1), <<>>}
    /\ Unloaded

NextLoad ==
    \/ NewStore
    \/ \E force \in BOOLEAN, nrows \in NrowsArgs : Load(force, nrows)
    \/ search_wmo(<<13858>>, None)
    \/ \E nrows \in NrowsArgs : ToDataframe(nrows, TRUE)

SpecLoad == InitLoad /\ [][NextLoad]_vars

(***************************************************************************)
(* SpecSearch: the six search methods on a store without cache             *)
(***************************************************************************)
InitSearch ==
    /\ backend \in {"pyarrow", "pandas"}
    /\ cache = FALSE
    /\ gz_exists = FALSE
    /\ gdac = ProfRows
    /\ Unloaded

NextSearch ==
    \/ \E nrows \in NrowsArgs : Load(FALSE, nrows)
    \/ \E W \in {<<13858>>, <<13859, 13858>>}, nrows \in NrowsArgs :
           search_wmo(W, nrows)
    \/ \E C \in {<<7>>, <<1007>>}, nrows \in NrowsArgs : search_cyc(C, nrows)
    \/ \E nrows \in NrowsArgs : search_wmo_cyc(<<13858, 13859>>, <<7>>, nrows)
    \/ \E B \in {Box4, Box6}, nrows \in NrowsArgs : search_lat_lon(B, nrows)
    \/ \E B \in {Box4, Box6}, nrows \in NrowsArgs : search_tim(B, nrows)
    \/ \E B \in {Box4, Box6}, nrows \in NrowsArgs : search_lat_lon_tim(B, nrows)
    \/ \E nrows \in NrowsArgs : Run(nrows)

SpecSearch == InitSearch /\ [][NextSearch]_vars

(***************************************************************************)
(* SpecCyc: searches by cycle number                                       *)
(***************************************************************************)
CycLists == {<<7>>, <<234>>, <<1007>>, <<1234>>, <<7, 1234>>}

InitCyc ==
    /\ backend \in {"pyarrow", "pandas"}
    /\ cache = FALSE
    /\ gz_exists = FALSE
    /\ gdac = CycRows
    /\ Unloaded

NextCyc ==
    \/ NewStore
    \/ \E nrows \in NrowsArgs : Load(FALSE, nrows)
    \/ \E C \in CycLists, nrows \in NrowsArgs : search_cyc(C, nrows)

SpecCyc == InitCyc /\ [][NextCyc]_vars

(***************************************************************************)
(* Spec: stores with cache=True sharing fs['search']                       *)
(***************************************************************************)
Init ==
    /\ backend \in {"pyarrow", "pandas"}
    /\ cache = TRUE
    /\ gz_exists = FALSE
    /\ gdac = ProfRows
    /\ Unloaded

Next ==
    \/ NewStore
    \/ \E nrows \in {None, Some(2)} : Load(FALSE, nrows)
    \/ \E nrows \in {None, Some(1)} : search_wmo(<<13859, 13858>>, nrows)
    \/ \E nrows \in {None, Some(1)} : search_lat_lon(Box6, nrows)
    \/ search_tim(Box6, None)
    \/ search_lat_lon_tim(Box6, None)
    \/ Run(None)
    \/ ToDataframe(None, TRUE)
    \/ clear_cache

Spec == Init /\ [][Next]_vars

(***************************************************************************)
(* SpecRoundTrip: searching, exporting, discarding the store and clearing  *)
(* the cache, with cache=True                                              *)
(***************************************************************************)
NextRoundTrip ==
    \/ NewStore
    \/ \E nrows \in NrowsArgs : search_wmo(<<13859, 13858>>, nrows)
    \/ search_lat_lon(Box4, None)
    \/ search_tim(Box4, None)
    \/ ToDataframe(None, FALSE)
    \/ clear_cache

SpecRoundTrip == Init /\ [][NextRoundTrip]_vars

(***************************************************************************)
(* SpecInit: constructing stores on local, http(s), ftp and other hosts    *)
(***************************************************************************)
Hosts == {"/gdac", "/nodir", "https://data-argo.ifremer.fr",
          "https://argo.example.org", "http://data-argo.ifremer.fr",
          "ftp://ftp.ifremer.fr/ifremer/argo", "ftp://ftp.ifremer.fr/nodir",
          "ftp://usgodae.org/pub/outgoing/argo", "ftp://ftp.example.org/argo",
          "s3://argo-gdac/pub"}

InitInit ==
    /\ backend \in {"pyarrow", "pandas"}
    /\ cache = FALSE
    /\ gz_exists = FALSE
    /\ gdac = ProfRows
    /\ NoStore

NextInit ==
    \/ \E h \in Hosts : Instantiate(h)
    \/ fs_index # None /\ \E nrows \in NrowsArgs : Load(FALSE, nrows)

SpecInit == InitInit /\ [][NextInit]_vars

(***************************************************************************)
(* SpecEmpty: searches on a box whose longitudes hold no profile           *)
(***************************************************************************)
\* no Index row lies within the longitudes; two rows lie within the dates
BoxEmpty == <<10000, 20000, 40000, 45000, 20070801, 20070815>>

InitEmpty ==
    /\ backend \in {"pyarrow", "pandas"}
    /\ cache \in BOOLEAN
    /\ gz_exists = FALSE
    /\ gdac = ProfRows
    /\ Unloaded

NextEmpty ==
    \/ NewStore
    \/ \E nrows \in NrowsArgs : search_lat_lon(BoxEmpty, nrows)
    \/ search_tim(BoxEmpty, None)
    \/ \E nrows \in {None, Some(1)} : ToDataframe(nrows, FALSE)

SpecEmpty == InitEmpty /\ [][NextEmpty]_vars

(***************************************************************************)
(* SpecExport: to_dataframe on Search and on Index, with and without cache *)
(***************************************************************************)
InitExport ==
    /\ backend \in {"pyarrow", "pandas"}
    /\ cache \in BOOLEAN
    /\ gz_exists = FALSE
    /\ gdac = ProfRows
    /\ Unloaded

NextExport ==
    \/ NewStore
    \/ \E nrows \in {None, Some(2)} : Load(FALSE, nrows)
    \/ search_wmo(<<13858>>, None)
    \/ search_lat_lon(BoxEmpty, None)
    \/ \E nrows \in {None, Some(1)}, full \in BOOLEAN : ToDataframe(nrows, full)

SpecExport == InitExport /\ [][NextExport]_vars

(***************************************************************************)
(* SpecPair: the same calls on an indexstore_pyarrow and on an             *)
(* indexstore_pandas, with cache=False                                     *)
(***************************************************************************)
InitPair ==
    /\ backend = "pyarrow"
    /\ cache = FALSE
    /\ gz_exists = FALSE
    /\ gdac = ProfRows
    /\ Unloaded

NextPair ==
    \/ \E force \in BOOLEAN, nrows \in NrowsArgs : PairLoad(force, nrows)
    \/ \E W \in {<<13858>>, <<13859, 13858>>}, nrows \in NrowsArgs :
           Pair_search_wmo(W, nrows)
    \/ \E nrows \in NrowsArgs : Pair_search_cyc(<<7>>, nrows)
    \/ \E nrows \in NrowsArgs : Pair_search_lat_lon(Box4, nrows)
    \/ \E nrows \in NrowsArgs : PairRun(nrows)

SpecPair == InitPair /\ [][NextPair]_vars

(***************************************************************************)
(* SpecCname: the searches whose criteria cname encodes                    *)
(***************************************************************************)
\* a 4-element box whose bounds have more than two decimals
BoxFrac == <<-60126, -55504, 40004, 45006>>

WmoLists == {<<1901393>>, <<13858>>, <<13859, 13858>>, <<13858, 13859>>,
             <<13859, 13857, 13858>>}
CnameCycLists == {<<7>>, <<1, 12>>, <<12, 1>>, <<1007, 7>>}

NextCname ==
    \/ NewStore
    \/ \E nrows \in NrowsArgs : Load(FALSE, nrows)
    \/ \E W \in WmoLists : search_wmo(W, None)
    \/ \E C \in CnameCycLists : search_cyc(C, None)
    \/ \E W \in {<<1901393>>, <<13859, 13858>>, <<13858, 13859>>},
          C \in {<<1, 12>>, <<12, 1>>, <<1007, 7>>} : search_wmo_cyc(W, C, None)
    \/ \E B \in {Box4, BoxFrac, Box6} : search_lat_lon(B, None)
    \/ search_tim(Box6, None)
    \/ search_lat_lon_tim(Box6, None)
    \/ ToDataframe(None, TRUE)

SpecCname == InitSearch /\ [][NextCname]_vars

(***************************************************************************)
(* SpecThreads: two threads, each calling one search method on a shared    *)
(* store with cache=True                                                   *)
(***************************************************************************)
\* a box whose longitudes/latitudes, whose dates and WMO 13858 select three
\* different sets of rows
BoxThreads == <<-60000, -55000, 40000, 45000, 20070715, 20070801>>

ThreadCalls ==
    {[op |-> "search_wmo", crit |-> [WMO |-> <<13858>>]],
     [op |-> "search_lat_lon", crit |-> [BOX |-> BoxThreads]],
     [op |-> "search_tim", crit |-> [BOX |-> BoxThreads]]}

NextThreads ==
    \/ \E t \in Threads, c \in ThreadCalls :
           c.op # threads.call[other(t)].op /\ T_call(t, c)
    \/ \E t \in Threads : T_load(t)
    \/ \E t \in Threads : T_search_type(t)
    \/ \E t \in Threads : T_search_filter(t)
    \/ \E t \in Threads : T_exists(t)
    \/ \E t \in Threads : T_read(t)
    \/ \E t \in Threads : T_compute(t)
    \/ \E t \in Threads : T_write(t)
    \/ \E t \in Threads : T_readback(t)

SpecThreads == Init /\ [][NextThreads]_vars

(***************************************************************************)
(* SpecMono: uri_mono2multi on lists of mono-profile URIs                  *)
(***************************************************************************)
MaxUris == 3

\* mono-profile URIs of three floats on one origin, two of them of the same
\* float, and of one of these floats on another origin
MonoUris ==
    {"/gdac/dac/aoml/13857/profiles/R13857_007.nc",
     "/gdac/dac/aoml/13858/profiles/R13858_007.nc",
     "/gdac/dac/aoml/13858/profiles/R13858_1007.nc",
     "/gdac/dac/coriolis/13859/profiles/D13859_007.nc",
     "ftp://ftp.ifremer.fr/ifremer/argo/dac/aoml/13858/profiles/R13858_007.nc"}

InitMono ==
    /\ backend = "pyarrow"
    /\ cache = FALSE
    /\ gz_exists = FALSE
    /\ gdac = ProfRows
    /\ header = IndexColumns
    /\ fs_index = Some([host |-> host, store |-> "filestore"])
    /\ twin = TwinUnloaded
    /\ threads = NoThreads
    /\ index = None
    /\ search = None
    /\ search_type = NoSearchType
    /\ search_filter = None
    /\ fs_search = [p \in {} |-> <<>>]
    /\ load_nrows = None
    /\ last = Call("__init__", <<>>, None, FALSE, "ok", "none", None)
    /\ rt = Idle
    /\ \E n \in 0..MaxUris, dataset_id \in {"phy", "bgc"} :
           \E URIs \in [1..n -> MonoUris] :
               fetcher = [dataset_id |-> dataset_id, URIs |-> URIs,
                          new_uri |-> None]

NextMono == Uri_mono2multi

SpecMono == InitMono /\ [][NextMono]_vars

(***************************************************************************)
(* SpecTim: searches by date, and by position and date, without cache      *)
(***************************************************************************)
\* the dates of one day only, those of the first two rows, and dates after
\* every row of the index
BoxDay == <<-60000, -55000, 40000, 45000, 20070801, 20070801>>
BoxLate == <<-60000, -55000, 40000, 45000, 20070901, 20070930>>
TimBoxes == {Box6, BoxEmpty, BoxThreads, BoxDay, BoxLate}

NextTim ==
    \/ NewStore
    \/ \E nrows \in NrowsArgs : Load(FALSE, nrows)
    \/ \E B \in TimBoxes, nrows \in NrowsArgs : search_tim(B, nrows)
    \/ \E B \in TimBoxes, nrows \in NrowsArgs : search_lat_lon_tim(B, nrows)

SpecTim == InitSearch /\ [][NextTim]_vars

(***************************************************************************)
(* SpecWmoCyc: searches by WMO and cycle number, without cache             *)
(***************************************************************************)
InitWmoCyc ==
    /\ backend \in {"pyarrow", "pandas"}
    /\ cache = FALSE
    /\ gz_exists = FALSE
    /\ gdac = WmoCycRows
    /\ Unloaded

NextWmoCyc ==
    \/ NewStore
    \/ \E nrows \in NrowsArgs : Load(FALSE, nrows)
    \/ \E W \in {<<13857>>, <<13859, 13857>>, <<1913857>>},
          C \in {<<7>>, <<8, 7>>}, nrows \in NrowsArgs :
           search_wmo_cyc(W, C, nrows)

SpecWmoCyc == InitWmoCyc /\ [][NextWmoCyc]_vars

(***************************************************************************)
(* Search methods called with accepted and with malformed arguments, on a  *)
(* store that caches                                                       *)
(***************************************************************************)
BadWmo == {<<123>>, <<13858, -1>>}
BadCyc == {<<-1>>, <<7, 10000>>}
BadBox == {<<-60000, -55000, 40000>>,
           <<-55000, -60000, 40000, 45000>>,
           <<-60000, -55000, 40000, 45000, 20070815>>,
           <<-60000, -55000, 40000, 45000, 20070815, 20070801>>}

NextArgs ==
    \/ NewStore
    \/ Load(FALSE, None)
    \/ \E W \in {<<13858>>} \cup BadWmo, nrows \in NrowsArgs :
           search_wmo(W, nrows)
    \/ \E C \in {<<7>>} \cup BadCyc : search_cyc(C, None)
    \/ \E W \in {<<13858>>, <<123>>}, C \in {<<7>>, <<-1>>} :
           search_wmo_cyc(W, C, None)
    \/ \E B \in {Box4} \cup BadBox : search_lat_lon(B, None)
    \/ \E B \in {Box6} \cup BadBox : search_tim(B, None)
    \/ \E B \in {Box6} \cup BadBox : search_lat_lon_tim(B, None)

SpecArgs == Init /\ [][NextArgs]_vars

(***************************************************************************)
(* SpecReload: forced and truncating reloads, exports and clear_cache on a *)
(* store that caches                                                       *)
(***************************************************************************)
NextReload ==
    \/ NewStore
    \/ \E force \in BOOLEAN, nrows \in {None, Some(2)} : Load(force, nrows)
    \/ search_wmo(<<13859, 13858>>, None)
    \/ \E nrows \in {None, Some(1)}, full \in BOOLEAN : ToDataframe(nrows, full)
    \/ clear_cache

SpecReload == Init /\ [][NextReload]_vars

(***************************************************************************)
(* SpecNoCache: stores with cache=False constructed after stores with      *)
(* cache=True left artifacts in fs['search']                               *)
(***************************************************************************)
NextNoCache ==
    \/ \E c \in BOOLEAN : NewStoreWith(c)
    \/ Load(FALSE, None)
    \/ \E nrows \in {None, Some(1)} : search_wmo(<<13859, 13858>>, nrows)
    \/ Run(None)
    \/ \E full \in BOOLEAN : ToDataframe(None, full)

SpecNoCache == Init /\ [][NextNoCache]_vars

(***************************************************************************)
(* SpecSchema: loading an index file whose header line lacks a column      *)
(***************************************************************************)
NoDateUpdate == <<"file", "date", "latitude", "longitude", "institution",
                  "profiler_type">>

InitSchema ==
    /\ backend \in {"pyarrow", "pandas"}
    /\ cache = FALSE
    /\ gz_exists \in BOOLEAN
    /\ gdac = ProfRows
    /\ Unloaded

NextSchema ==
    \/ NewStore
    \/ \E cols \in {IndexColumns, NoDateUpdate} : GdacUpdate(cols)
    \/ \E force \in BOOLEAN, nrows \in NrowsArgs : Load(force, nrows)
    \/ search_wmo(<<13858>>, None)

SpecSchema == InitSchema /\ [][NextSchema]_vars

(***************************************************************************)
(* SpecBox: box fetchers on index files holding about MaxMonoFiles         *)
(* profiles within the box                                                 *)
(***************************************************************************)
MaxPoints == 2

BoxFetch6 == <<-60000, -55000, 40000, 45000, 0, 1000>>
BoxFetch8 == <<-60000, -55000, 40000, 45000, 0, 1000, 20070801, 20070815>>

\* an index of n profiles of two floats within BoxFetch8, the first on lon_max
\* and lat_max, followed by a profile of a third float outside the box
BoxRows(n) ==
    [k \in 1..n |->
        LET wmo == IF k % 2 = 1 THEN "13857" ELSE "13858"
        IN  Row("aoml/" \o wmo \o "/profiles/R" \o wmo \o "_"
                    \o FmtIntPrec(k, 3) \o ".nc",
                20070801, IF k = 1 THEN 45000 ELSE 42500,
                IF k = 1 THEN -55000 ELSE -57500, "AO", 846)]
    \o << Row("coriolis/13859/profiles/D13859_007.nc", 20070820, 42000,
              -50000, "IF", 999) >>

\* points inside the box, on each of its bounds, and outside it
BoxPoints ==
    { Point(-57500, 42500, 500, 20070810),
      Point(-60000, 40000, 0, 20070801),
      Point(-55000, 42500, 500, 20070810),
      Point(-57500, 45000, 500, 20070810),
      Point(-50000, 42000, 500, 20070810),
      Point(-57500, 42500, 1500, 20070810),
      Point(-57500, 42500, 500, 20070820) }

InitBox ==
    /\ backend = "pyarrow"
    /\ cache = FALSE
    /\ gz_exists = FALSE
    /\ gdac \in {BoxRows(n) : n \in (MaxMonoFiles - 1)..(MaxMonoFiles + 2)}
    /\ header = IndexColumns
    /\ fs_index = Some([host |-> host, store |-> "filestore"])
    /\ twin = TwinUnloaded
    /\ threads = NoThreads
    /\ index = None
    /\ search = None
    /\ search_type = NoSearchType
    /\ search_filter = None
    /\ fs_search = [p \in {} |-> <<>>]
    /\ load_nrows = None
    /\ last = Call("__init__", <<>>, None, FALSE, "ok", "none", None)
    /\ rt = Idle
    /\ \E n \in 0..MaxPoints, box \in {BoxFetch6, BoxFetch8} :
           \E points \in [1..n -> BoxPoints] :
               fetcher = [dataset_id |-> "phy", BOX |-> box, points |-> points,
                          list_of_argo_files |-> None,
                          post_filter_points |-> FALSE, ds |-> None]

NextBox ==
    \/ Fetch_box_init
    \/ To_xarray

SpecBox == InitBox /\ [][NextBox]_vars

(***************************************************************************)
(* Claims about load                                                       *)
(***************************************************************************)
\* a step that is a call load(force=False, nrows) on a store on which a load
\* with the same nrows returned before
RepeatedLoad ==
    /\ hasattr(index)
    /\ load_nrows # None
    /\ last'.op = "load"
    /\ ~last'.flag
    /\ last'.nrows = load_nrows[1]

\* C8: once load has succeeded, a further load(force=False) with the same
\* max_rows leaves Index (hence N_RECORDS) unchanged and opens no file.
C8_LoadIdempotent ==
    [][RepeatedLoad => (index' = index /\ last'.opened = "none")]_vars

\* C8 witness: a load with a row limit returned on an already loaded store
\* without opening the index file
C8_Witness ==
    /\ last.op = "load" /\ ~last.flag /\ last.exc = "ok"
    /\ last.opened = "none"
    /\ last.nrows # None
    /\ load_nrows = Some(last.nrows)
    /\ N_RECORDS = last.nrows[1]

\* the table load(nrows) holds before its truncation step: the one just
\* parsed when the call opened the file, the loaded Index otherwise
HeldRows == IF last'.opened = "none" THEN index[1].rows
            ELSE read_csv(gdac, last'.nrows)

\* C9 (as claimed): when load(max_rows=n) returns and the table it holds has
\* more than n rows the Index is exactly its first n rows; with at most n
\* rows the Index keeps all of them.
C9_TruncatesToMaxRows ==
    [][(last'.op = "load" /\ last'.exc = "ok" /\ last'.nrows # None) =>
          LET n == last'.nrows[1]
          IN  IF Len(HeldRows) > n
              THEN index'[1].rows = SubSeq(HeldRows, 1, n)
              ELSE index'[1].rows = HeldRows]_vars

\* C10 (as claimed): load raises DataNotFound whenever the resulting Index has
\* zero rows, and never returns leaving N_RECORDS = 0.
C10_NeverReturnsEmptyIndex ==
    (last.op = "load" /\ hasattr(index) /\ N_RECORDS = 0)
        => last.exc = "DataNotFound"

\* C11: when load reads the index it opens the gzip sibling <index_path>.gz
\* if that exists, and the raw index file only if it does not.
C11_GzipPreferred ==
    (last.opened # "none") =>
        last.opened = IF gz_exists THEN "gz" ELSE "raw"

\* C11 witness: a load read the index on a host that has the .gz sibling
C11_Witness ==
    /\ last.op = "load" /\ last.exc = "ok"
    /\ gz_exists /\ last.opened = "gz"
    /\ N_RECORDS > 0

C14_IndexPathVerified ==
    /\ [](/\ hasattr(fs_index) =>
                (fs_index[1].host \o "/" \o index_file) \in IndexFiles
          /\ (last.op = "__init__"
                 /\ (last.crit.host \o "/" \o index_file) \notin IndexFiles)
                => last.exc = "FtpPathError"
          /\ (last.op = "__init__" /\ last.exc = "ok") =>
                (fs_index[1].host = last.crit.host /\ ~hasattr(index)))
    /\ [][(last'.op = "__init__" /\ last'.exc # "ok") =>
              UNCHANGED <<fs_index, index, search, search_type,
                          search_filter>>]_vars

\* C14 witness: a constructor call on a recognised kind of host without index
\* file raised, and the loaded store constructed earlier is still there
C14_Witness ==
    /\ last.op = "__init__" /\ last.exc = "FtpPathError"
    /\ last.crit.host \in {"/nodir", "ftp://ftp.ifremer.fr/nodir"}
    /\ hasattr(fs_index) /\ fs_index[1].host # last.crit.host
    /\ hasattr(index)

\* the hosts the claim accepts: local paths and the https/ftp hosts of
\* ifremer and usgodae
RecognizedHosts ==
    {"/gdac", "/nodir", "https://data-argo.ifremer.fr",
     "ftp://ftp.ifremer.fr/ifremer/argo", "ftp://ftp.ifremer.fr/nodir",
     "ftp://usgodae.org/pub/outgoing/argo"}

\* C15 (as claimed): a store is constructed only on a local path or on an
\* https/ftp host of ifremer or usgodae; every other host or protocol is
\* rejected with FtpPathError.
C15_OnlyRecognizedHosts ==
    /\ hasattr(fs_index) => fs_index[1].host \in RecognizedHosts
    /\ (last.op = "__init__" /\ last.crit.host \notin RecognizedHosts)
          => last.exc = "FtpPathError"

(***************************************************************************)
(* Claims about the search methods and run                                 *)
(***************************************************************************)
\* the rows of a table on the columns of the Index (pandas' Search carries
\* one more column, 'index')
IndexCols(rows) ==
    [k \in 1..Len(rows) |-> [f \in DOMAIN rows[k] \ {"index"} |-> rows[k][f]]]

\* the latest call is a search method that returned
Searched == last.op \in SearchOps /\ last.exc = "ok"

\* the Index rows that satisfy the predicate of the latest search, in order
Matching == take(index[1].rows, nonzero(search_filter[1]))

\* C1 (as claimed): with caching disabled, after a search_* call with
\* max_rows=n on an index with m > 0 matching rows, Search is exactly the
\* first min(n, m) matching rows of Index in index order; without max_rows it
\* is all the matching rows.
C1_SearchIsFirstMatches ==
    (Searched /\ ~cache /\ Len(Matching) > 0) =>
        IndexCols(search[1].rows) =
            IF last.nrows # None
            THEN SubSeq(Matching, 1, Min(last.nrows[1], Len(Matching)))
            ELSE Matching

\* str.endswith
EndsWith(s, suffix) ==
    Len(s) >= Len(suffix)
    /\ SubSeq(s, Len(s) - Len(suffix) + 1, Len(s)) = suffix

\* the file-name suffix of a cycle number, written out
CycSuffix(c) ==
    CASE c = 7 -> "_007.nc"
      [] c = 234 -> "_234.nc"
      [] c = 1007 -> "_1007.nc"
      [] c = 1234 -> "_1234.nc"

\* C4: search_cyc([c]) selects exactly the rows whose file name ends with
\* _{c:03d}.nc for c < 1000 and _{c:04d}.nc for c >= 1000; a cycle of one
\* padding width never selects a name of the other width.
C4_CyclePadding ==
    (last.op = "search_cyc" /\ last.exc = "ok" /\ Len(last.crit.CYC) = 1) =>
        LET c == last.crit.CYC[1]
        IN  /\ \A k \in 1..N_RECORDS :
                  search_filter[1][k]
                      <=> EndsWith(index[1].rows[k].file, CycSuffix(c))
            /\ (~last.flag /\ last.nrows = None) =>
                  IndexCols(search[1].rows) =
                      SelectSeq(index[1].rows,
                                LAMBDA r : EndsWith(r.file, CycSuffix(c)))

\* C4 witness: search_cyc([7]) and search_cyc([1234]) each selected a row of
\* its own padding width from an Index that also holds rows of the other
C4_Witness ==
    /\ last.op = "search_cyc" /\ last.exc = "ok" /\ ~last.flag
    /\ last.nrows = None
    /\ last.crit.CYC \in {<<7>>, <<1234>>}
    /\ N_RECORDS = Len(CycRows)
    /\ N_MATCH = 1

\* C2 (as claimed): in every reachable state, right after search_lat_lon(B)
\* returns, every Search row lies within the inclusive bounds of B and no
\* Index row within the bounds is missing from Search.
C2_LatLonBoxExact ==
    (last.op = "search_lat_lon" /\ last.exc = "ok" /\ last.nrows = None) =>
        LET B == last.crit.BOX
            InBox(r) == /\ B[1] <= r.longitude /\ r.longitude <= B[2]
                        /\ B[3] <= r.latitude /\ r.latitude <= B[4]
            found == IndexCols(search[1].rows)
        IN  /\ \A k \in 1..Len(found) : InBox(found[k])
            /\ \A k \in 1..N_RECORDS :
                  InBox(index[1].rows[k]) =>
                      \E j \in 1..Len(found) : found[j] = index[1].rows[k]

\* the WMO path segment of a uri {host}/dac/{dac}/{wmo}/...
WmoOfUri(u) == int(split(SubSeq(u, Len(host) + Len("/dac/") + 1, Len(u)))[2])

\* C3 (as claimed): after search_wmo(W) without max_rows, uri holds only
\* paths whose WMO segment is in W, and every WMO of W with a row in Index
\* appears in a returned path.
C3_WmoUriExact ==
    (last.op = "search_wmo" /\ last.exc = "ok" /\ last.nrows = None) =>
        LET W == {last.crit.WMO[k] : k \in 1..Len(last.crit.WMO)}
        IN  /\ \A k \in 1..Len(uri) : WmoOfUri(uri[k]) \in W
            /\ \A w \in W :
                  (\E k \in 1..N_RECORDS :
                       int(split(index[1].rows[k].file)[2]) = w)
                  => \E k \in 1..Len(uri) : WmoOfUri(uri[k]) = w

\* C5 (as claimed): whenever Search exists it is a row-subset of the current
\* Index (its rows, read on the Index columns, are Index rows), and
\* N_MATCH <= N_RECORDS.
C5_SearchSubsetOfIndex ==
    hasattr(search) =>
        /\ hasattr(index)
        /\ N_MATCH <= N_RECORDS
        /\ \A k \in 1..N_MATCH :
              \E j \in 1..N_RECORDS :
                  IndexCols(search[1].rows)[k] = index[1].rows[j]

\* C7 (as claimed): a search served from the cache returns the rows the
\* current request computes from scratch over the current Index.
C7_CacheHitIsRequestResult ==
    (Searched /\ last.flag) =>
        search[1] = compute(index[1], search_filter[1], last.nrows).search

\* the predicate of the latest search matches no row of Index
NoMatch ==
    /\ hasattr(index) /\ hasattr(search_filter)
    /\ Len(search_filter[1]) = N_RECORDS
    /\ Matching = <<>>

\* C13 (as claimed): a search whose predicate matches no Index row returns
\* without error and leaves N_MATCH = 0, and every to_dataframe(index=False)
\* that follows raises DataNotFound, with caching on or off.
C13_EmptyMatchRaises ==
    /\ (last.op \in SearchOps /\ NoMatch) =>
           (last.exc = "ok" /\ hasattr(search) /\ N_MATCH = 0)
    /\ (last.op = "to_dataframe" /\ ~last.flag /\ hasattr(search) /\ NoMatch)
           => last.exc = "DataNotFound"

\* C18: uri is, element for element, the column 'file' of Search joined as
\* {host}/dac/{file}, with len(uri) = N_MATCH; uri_full_index is the same
\* over the column 'file' of Index, with len = N_RECORDS.
C18_UriLists ==
    /\ hasattr(search) =>
          /\ Len(uri) = N_MATCH
          /\ \A k \in 1..N_MATCH :
                uri[k] = Join(<<"/gdac", "dac", search[1].rows[k].file>>, "/")
    /\ hasattr(index) =>
          /\ Len(uri_full_index) = N_RECORDS
          /\ \A k \in 1..N_RECORDS :
                uri_full_index[k]
                    = Join(<<"/gdac", "dac", index[1].rows[k].file>>, "/")

\* C18 witness: a store whose Search (3 rows) and Index (1 row) differ
C18_Witness ==
    /\ hasattr(search) /\ hasattr(index)
    /\ Len(uri) = 3 /\ Len(uri_full_index) = 1
    /\ uri[1] = "/gdac/dac/aoml/13858/profiles/R13858_007.nc"
    /\ uri_full_index[1] = "/gdac/dac/aoml/13857/profiles/R13857_007.nc"

\* C19 (as claimed): after each search call that returned, search_type and
\* cname hold only the criteria of that call (no WMO, CYC or BOX left over
\* from an earlier search), and Search holds the rows this call selects from
\* Index, none carried over from an earlier search.
C19_SearchReplacedWholesale ==
    Searched =>
        /\ search_type = last.crit
        /\ "WMO" \notin DOMAIN last.crit => ~str_in("WMO", cname(search_type))
        /\ "CYC" \notin DOMAIN last.crit => ~str_in("CYC", cname(search_type))
        /\ "BOX" \notin DOMAIN last.crit => ~str_in("x=", cname(search_type))
        /\ IndexCols(search[1].rows) =
              IndexCols(compute(index[1], search_filter[1], last.nrows).search.rows)

(***************************************************************************)
(* Claim about the two backends                                            *)
(***************************************************************************)
\* N_RECORDS, N_MATCH and uri as a caller observes them: the value, or the
\* exception raised when the attribute is absent
Observed(idx, srch) ==
    [N_RECORDS |-> IF hasattr(idx) THEN Some(shape0(idx[1])) ELSE None,
     N_MATCH   |-> IF hasattr(srch) THEN Some(shape0(srch[1])) ELSE None,
     uri       |-> IF hasattr(srch) THEN Some(uri_of(srch[1])) ELSE None]

\* C21 (as claimed): an indexstore_pyarrow and an indexstore_pandas given the
\* same index file and the same sequence of load/search/run calls, with
\* caching off, end every step with the same N_RECORDS, the same N_MATCH and
\* the same uri list.
C21_BackendsAgree == Observed(index, search) = Observed(twin.index, twin.search)

(***************************************************************************)
(* Claim about two threads on one store                                    *)
(***************************************************************************)
\* the rows the search call c selects from Index
Selected(c) == take(index[1].rows, nonzero(filter_of(c, index[1])))

\* both threads have returned from their calls
BothReturned == \A t \in Threads : threads.pc[t] = "done"

\* the final Search is not what the call that assigned the final
\* search_type selects
SearchMismatch ==
    IndexCols(search[1].rows) # Selected(threads.call[threads.typed_by])

\* the artifact at the cache path of a call holds rows other than those the
\* call selects
ArtifactMismatch ==
    \E t \in Threads :
        LET path == search_path(threads.call[t].crit)
        IN  /\ path \in DOMAIN fs_search
            /\ IndexCols(fs_search[path].rows) # Selected(threads.call[t])

\* C25 (as claimed): when two threads have called different search methods
\* on a shared store with cache, a final Search that does not match the final
\* search_type, or an artifact at the cache path of one search holding the
\* rows of the other, is reached only when the steps of the two calls were
\* interleaved, never when the calls ran one after the other.
C25_MismatchOnlyWhenInterleaved ==
    (BothReturned /\ (SearchMismatch \/ ArtifactMismatch))
        => threads.overlapped

\* the interleaving of C25: both calls returned, their steps were
\* interleaved, their cache paths differ, and the final Search is not what
\* the final search_type selects
C25_RaceReached ==
    /\ BothReturned /\ threads.overlapped
    /\ search_path(threads.call[1].crit) # search_path(threads.call[2].crit)
    /\ SearchMismatch
    /\ ArtifactMismatch

\* C27: with caching on, after a run that computed its result from scratch,
\* a non-empty result is at search_path and Search is the table read back
\* from there, with the rows computed, in their order; an empty result
\* leaves no artifact at search_path and the cache as it was, and the same
\* search called again next computes again.
C27_PersistNonEmptyOnly ==
    [][(last'.op \in SearchOps /\ last'.exc = "ok" /\ cache) =>
          LET path == search_path(search_type')
              computed == compute(index'[1], search_filter'[1],
                                  last'.nrows).search
          IN  /\ (~last'.flag /\ shape0(computed) > 0) =>
                    /\ path \in DOMAIN fs_search'
                    /\ search'[1] = fs_search'[path]
                    /\ search'[1].rows = computed.rows
              /\ (~last'.flag /\ shape0(computed) = 0) =>
                    /\ shape0(search'[1]) = 0
                    /\ path \notin DOMAIN fs_search'
                    /\ fs_search' = fs_search
              /\ (Searched /\ ~last.flag /\ N_MATCH = 0 /\ last'.op = last.op
                    /\ last'.crit = last.crit /\ last'.nrows = last.nrows) =>
                    ~last'.flag]_vars

\* C27 witness: on a store with cache, a search that matched no row was
\* computed from scratch and left nothing at its search_path, while the
\* cache holds an export
C27_Witness ==
    /\ Searched /\ cache /\ ~last.flag
    /\ N_MATCH = 0
    /\ search_path(search_type) \notin DOMAIN fs_search
    /\ DOMAIN fs_search # {}

\* C28: with caching off, after search_tim(BOX) on a 6-element BOX Search
\* is exactly the Index rows with date_min <= date <= date_max, whatever the
\* longitudes and latitudes of the box; after search_lat_lon_tim(BOX) it is
\* exactly the rows that satisfy this and lie within the four inclusive
\* longitude/latitude bounds.
C28_TimeBoxExact ==
    (last.op \in {"search_tim", "search_lat_lon_tim"} /\ last.exc = "ok"
        /\ last.nrows = None /\ ~cache) =>
        LET B == last.crit.BOX
            InTime(r) == B[5] <= r.date /\ r.date <= B[6]
            InBox(r) == /\ B[1] <= r.longitude /\ r.longitude <= B[2]
                        /\ B[3] <= r.latitude /\ r.latitude <= B[4]
        IN  IndexCols(search[1].rows) =
                IF last.op = "search_tim"
                THEN SelectSeq(index[1].rows, InTime)
                ELSE SelectSeq(index[1].rows, LAMBDA r : InTime(r) /\ InBox(r))

\* C28 witness: search_tim on a box whose longitudes hold no profile
\* returned the two rows dated on its first and on its last day
C28_Witness ==
    /\ last.op = "search_tim" /\ last.exc = "ok" /\ last.nrows = None
    /\ last.crit.BOX = BoxEmpty
    /\ N_RECORDS = 4 /\ N_MATCH = 2
    /\ search[1].rows[1].date = BoxEmpty[5]
    /\ search[1].rows[2].date = BoxEmpty[6]

\* the float and the cycle number of the files of the index, written out
FloatCycOf(f) ==
    CASE f = "aoml/13857/profiles/R13857_007.nc" -> <<13857, 7>>
      [] f = "aoml/13857/profiles/R13857_008.nc" -> <<13857, 8>>
      [] f = "aoml/1913857/profiles/R1913857_007.nc" -> <<1913857, 7>>
      [] f = "coriolis/13859/profiles/D13859_007.nc" -> <<13859, 7>>

\* C29 (as claimed): with caching off and no max_rows, after
\* search_wmo_cyc(W, C) Search is exactly the Index rows whose float is in W
\* and whose cycle number is in C: no row of a float outside W (also not of
\* a float whose WMO ends with the digits of a WMO of W), and no row of a
\* pair of W x C missing.
C29_WmoCycExact ==
    (last.op = "search_wmo_cyc" /\ last.exc = "ok" /\ last.nrows = None
        /\ ~cache) =>
        LET W == {last.crit.WMO[k] : k \in 1..Len(last.crit.WMO)}
            C == {last.crit.CYC[k] : k \in 1..Len(last.crit.CYC)}
        IN  IndexCols(search[1].rows) =
                SelectSeq(index[1].rows,
                          LAMBDA r : /\ FloatCycOf(r.file)[1] \in W
                                     /\ FloatCycOf(r.file)[2] \in C)

(***************************************************************************)
(* Claims about cname                                                      *)
(***************************************************************************)
\* the cname of the identifier searches, written out
IdCname(crit) ==
    CASE crit = [WMO |-> <<1901393>>] -> "WMO1901393"
      [] crit = [WMO |-> <<13858>>] -> "WMO13858"
      [] crit = [WMO |-> <<13859, 13858>>] -> "WMO13858;WMO13859"
      [] crit = [WMO |-> <<13858, 13859>>] -> "WMO13858;WMO13859"
      [] crit = [WMO |-> <<13859, 13857, 13858>>] -> "WMO13857;WMO13858;WMO13859"
      [] crit = [CYC |-> <<7>>] -> "CYC7"
      [] crit = [CYC |-> <<1, 12>>] -> "CYC1;CYC12"
      [] crit = [CYC |-> <<12, 1>>] -> "CYC1;CYC12"
      [] crit = [CYC |-> <<1007, 7>>] -> "CYC7;CYC1007"
      [] crit = [WMO |-> <<1901393>>, CYC |-> <<1, 12>>] -> "WMO1901393_CYC1_CYC12"
      [] crit = [WMO |-> <<1901393>>, CYC |-> <<12, 1>>] -> "WMO1901393_CYC1_CYC12"
      [] crit = [WMO |-> <<1901393>>, CYC |-> <<1007, 7>>]
            -> "WMO1901393_CYC7_CYC1007"
      [] crit = [WMO |-> <<13859, 13858>>, CYC |-> <<1, 12>>]
            -> "WMO13859_CYC1_CYC12;WMO13858_CYC1_CYC12"
      [] crit = [WMO |-> <<13859, 13858>>, CYC |-> <<12, 1>>]
            -> "WMO13859_CYC1_CYC12;WMO13858_CYC1_CYC12"
      [] crit = [WMO |-> <<13859, 13858>>, CYC |-> <<1007, 7>>]
            -> "WMO13859_CYC7_CYC1007;WMO13858_CYC7_CYC1007"
      [] crit = [WMO |-> <<13858, 13859>>, CYC |-> <<1, 12>>]
            -> "WMO13858_CYC1_CYC12;WMO13859_CYC1_CYC12"
      [] crit = [WMO |-> <<13858, 13859>>, CYC |-> <<12, 1>>]
            -> "WMO13858_CYC1_CYC12;WMO13859_CYC1_CYC12"
      [] crit = [WMO |-> <<13858, 13859>>, CYC |-> <<1007, 7>>]
            -> "WMO13858_CYC7_CYC1007;WMO13859_CYC7_CYC1007"

IdSearchOps == {"search_wmo", "search_cyc", "search_wmo_cyc"}

\* C22: after search_wmo(W) cname is WMO{n} for one WMO and the ;-joined
\* WMO{n} sorted ascending for several; after search_wmo_cyc(W, C) it is, per
\* WMO in the input order of W, WMO{n}_CYC{c1}_CYC{c2}... with the cycles
\* sorted ascending, joined by ';'; after search_cyc(C) it is the ;-joined
\* CYC{c} sorted ascending.
C22_CnameOfIdentifiers ==
    (last.op \in IdSearchOps /\ last.exc = "ok") =>
        cname(search_type) = IdCname(last.crit)

\* C22 witness: search_wmo on a list of three WMOs given out of order
\* returned, and cname lists them in ascending order
C22_Witness ==
    /\ last.op = "search_wmo" /\ last.exc = "ok"
    /\ last.crit.WMO = <<13859, 13857, 13858>>
    /\ cname(search_type) = "WMO13857;WMO13858;WMO13859"

\* the cname of the box searches, written out
BoxCname(BOX) ==
    CASE BOX = <<-60000, -55000, 40000, 45000>>
            -> "x=-60.00/-55.00;y=40.00/45.00"
      [] BOX = <<-60126, -55504, 40004, 45006>>
            -> "x=-60.13/-55.50;y=40.00/45.01"
      [] BOX = <<-60000, -55000, 40000, 45000, 20070801, 20070815>>
            -> "x=-60.00/-55.00;y=40.00/45.00;t=2007-08-01/2007-08-15"

\* C23: cname is "full" on a new store and stays "full" through load and
\* to_dataframe as long as no search method was called; after a box search
\* it is x={lon_min:.2f}/{lon_max:.2f};y={lat_min:.2f}/{lat_max:.2f} for a
\* 4-element BOX, followed by ;t={date_min:%Y-%m-%d}/{date_max:%Y-%m-%d} for
\* a 6-element BOX.
C23_CnameFullAndBox ==
    /\ [](/\ last.op = "__init__" => cname(search_type) = "full"
          /\ (Searched /\ "BOX" \in DOMAIN last.crit) =>
                cname(search_type) = BoxCname(last.crit.BOX))
    /\ [][(last'.op \in {"load", "to_dataframe"}
              /\ cname(search_type) = "full")
             => cname(search_type') = "full"]_vars

\* C23 witness: a search on a 6-element BOX returned and cname carries the
\* bounds and the dates
C23_Witness ==
    /\ last.op = "search_lat_lon_tim" /\ last.exc = "ok"
    /\ Len(last.crit.BOX) = 6
    /\ cname(search_type)
          = "x=-60.00/-55.00;y=40.00/45.00;t=2007-08-01/2007-08-15"

\* a loaded store on which no search was called, after to_dataframe on the
\* full index: cname is "full"
C23_FullReached ==
    /\ last.op = "to_dataframe" /\ last.exc = "ok" /\ last.flag
    /\ hasattr(index) /\ ~hasattr(search)
    /\ cname(search_type) = "full"

(***************************************************************************)
(* Claim about uri_mono2multi                                              *)
(***************************************************************************)
\* the origin, the dac and the wmo of the mono-profile URIs, written out
FloatOf(u) ==
    CASE u = "/gdac/dac/aoml/13857/profiles/R13857_007.nc"
            -> <<"/gdac", "aoml", "13857">>
      [] u = "/gdac/dac/aoml/13858/profiles/R13858_007.nc"
            -> <<"/gdac", "aoml", "13858">>
      [] u = "/gdac/dac/aoml/13858/profiles/R13858_1007.nc"
            -> <<"/gdac", "aoml", "13858">>
      [] u = "/gdac/dac/coriolis/13859/profiles/D13859_007.nc"
            -> <<"/gdac", "coriolis", "13859">>
      [] u = "ftp://ftp.ifremer.fr/ifremer/argo/dac/aoml/13858/profiles/R13858_007.nc"
            -> <<"ftp://ftp.ifremer.fr/ifremer/argo", "aoml", "13858">>

\* the multi-profile file of a float
MultiOf(f, dataset_id) ==
    f[1] \o "/dac/" \o f[2] \o "/" \o f[3] \o "/" \o f[3]
    \o (IF dataset_id = "phy" THEN "_prof.nc" ELSE "_Sprof.nc")

\* C26: the list uri_mono2multi returns holds, for every distinct
\* (origin, dac, wmo) of the URIs given, the multi-profile file
\* {origin}/dac/{dac}/{wmo}/{wmo}_prof.nc (dataset 'phy') or {wmo}_Sprof.nc
\* ('bgc') exactly once, and nothing else.
C26_MonoToMulti ==
    fetcher.new_uri # None =>
        LET out    == fetcher.new_uri[1]
            floats == {FloatOf(fetcher.URIs[k]) : k \in 1..Len(fetcher.URIs)}
        IN  /\ Len(out) = Cardinality(floats)
            /\ {out[k] : k \in 1..Len(out)}
                  = {MultiOf(f, fetcher.dataset_id) : f \in floats}
            /\ \A i, j \in 1..Len(out) : i # j => out[i] # out[j]

\* C26 witness: three URIs, two of them profiles of one float and the third
\* the same float on another origin, gave two multi-profile files
C26_Witness ==
    /\ fetcher.new_uri # None
    /\ Len(fetcher.URIs) = 3
    /\ \E i, j, k \in 1..3 :
          /\ i # j
          /\ FloatOf(fetcher.URIs[i]) = FloatOf(fetcher.URIs[j])
          /\ fetcher.URIs[i] # fetcher.URIs[j]
          /\ FloatOf(fetcher.URIs[k])[1] # FloatOf(fetcher.URIs[i])[1]
    /\ Len(fetcher.new_uri[1]) = 2

(***************************************************************************)
(* Claims about to_dataframe                                               *)
(***************************************************************************)
\* the column 'file' of a sequence of rows
FileCol(rows) == [k \in 1..Len(rows) |-> rows[k].file]

\* the first n rows (all rows when n is None)
FirstRows(rows, n) ==
    IF n # None THEN SubSeq(rows, 1, Min(n[1], Len(rows))) ELSE rows

\* C16: a to_dataframe call that returns has taken Search as its source when
\* a Search existed and index was false, and Index otherwise, loading Index
\* first when the store was unloaded: the table holds the files of that
\* source (or is the export stored under the cache key of that source), an
\* Index already loaded is left as it is, and Search is not read when there
\* is none.
C16_SourceByState ==
    [][(last'.op = "to_dataframe" /\ last'.exc = "ok") =>
          LET use_search == hasattr(search) /\ ~last'.flag
              source == IF use_search THEN search[1] ELSE index'[1]
              key == export_path(host \o "/" \o index_file \o "/"
                                 \o (IF use_search THEN sha(search_type)
                                     ELSE sha_full), last'.nrows)
          IN  /\ ~use_search => hasattr(index')
              /\ hasattr(index) => index' = index
              /\ IF cache /\ key \in DOMAIN fs_search
                 THEN last'.df[1] = fs_search[key]
                 ELSE FileCol(last'.df[1].rows)
                          = FileCol(FirstRows(source.rows, last'.nrows))]_vars

\* C16 witness: to_dataframe(index=True) on a store holding a Search of fewer
\* rows returned one row per Index row
C16_Witness ==
    /\ last.op = "to_dataframe" /\ last.flag /\ last.exc = "ok"
    /\ last.nrows = None
    /\ hasattr(search) /\ hasattr(index)
    /\ N_MATCH < N_RECORDS
    /\ Len(last.df[1].rows) = N_RECORDS

\* the WMO of the floats of the index files, written out
WmoOfFile(f) ==
    CASE f = "aoml/13857/profiles/R13857_007.nc" -> 13857
      [] f = "aoml/13858/profiles/R13858_007.nc" -> 13858
      [] f = "aoml/13858/profiles/R13858_1007.nc" -> 13858
      [] f = "coriolis/13859/profiles/D13859_007.nc" -> 13859

\* the position of a file in the index file
PosInFile(f) == CHOOSE k \in 1..Len(gdac) : gdac[k].file = f

\* C17: every table to_dataframe returns, computed or read from the export
\* cache, from Search or from Index, has wmo = int(file.split('/')[1]) in
\* each row, has the columns institution, institution_code, profiler and
\* profiler_code, keeps the rows in the order of the index, and has the row
\* index 0..k-1.
C17_MaterializedTable ==
    (last.op = "to_dataframe" /\ last.exc = "ok") =>
        LET df == last.df[1]
            k  == Len(df.rows)
            named == {"institution", "institution_code", "profiler",
                      "profiler_code", "wmo", "file"}
        IN  /\ \A i \in 1..k : df.rows[i].wmo = WmoOfFile(df.rows[i].file)
            /\ named \subseteq {df.columns[i] : i \in 1..Len(df.columns)}
            /\ \A i \in 1..k :
                  {df.columns[j] : j \in 1..Len(df.columns)} = DOMAIN df.rows[i]
            /\ \A i \in 1..(k - 1) :
                  PosInFile(df.rows[i].file) < PosInFile(df.rows[i + 1].file)
            /\ df.index = [i \in 1..k |-> i - 1]

\* C17 witness: to_dataframe returned a table of several rows from a Search,
\* on a store with cache (the table is the one read back from the cache)
C17_Witness ==
    /\ last.op = "to_dataframe" /\ last.exc = "ok" /\ ~last.flag
    /\ cache /\ hasattr(search)
    /\ Len(last.df[1].rows) = 2
    /\ N_MATCH = 2

\* the export cache key of a source fingerprint and a row limit
ExportKey(tag, n) == export_path(host \o "/" \o index_file \o "/" \o tag, n)

\* the source fingerprints and the row limits of the exports of SpecExport
ExportTags == {sha([WMO |-> <<13858>>]), sha([BOX |-> BoxEmpty]), sha_full}
ExportLimits == {None, Some(1), Some(2)}

\* C24: with caching on, the key of an export is the fingerprint of its
\* source (backend tag and cname, or the full-index tag) with the row limit;
\* a to_dataframe call whose key is present returns the table stored there
\* and writes nothing, a call whose key is absent stores its table under
\* that key only; the key of no other fingerprint or row limit is the same
\* path, so no call is served the table of another row limit or cname.
C24_ExportKey ==
    [][(last'.op = "to_dataframe" /\ last'.exc = "ok" /\ cache) =>
          LET use_search == hasattr(search) /\ ~last'.flag
              tag == IF use_search THEN sha(search_type) ELSE sha_full
              key == ExportKey(tag, last'.nrows)
          IN  /\ tag \in ExportTags /\ last'.nrows \in ExportLimits
              /\ key \in DOMAIN fs_search =>
                    (last'.df[1] = fs_search[key] /\ fs_search' = fs_search)
              /\ key \notin DOMAIN fs_search =>
                    /\ DOMAIN fs_search' = DOMAIN fs_search \cup {key}
                    /\ fs_search'[key] = last'.df[1]
              /\ \A t2 \in ExportTags, n2 \in ExportLimits :
                    (t2 # tag \/ n2 # last'.nrows) =>
                        ExportKey(t2, n2) # key]_vars

\* C24 witness: to_dataframe(nrows=1) on a Search of two rows returned one
\* row while the export of the same Search without row limit (two rows) is
\* in the cache
C24_Witness ==
    /\ last.op = "to_dataframe" /\ last.exc = "ok" /\ ~last.flag /\ cache
    /\ last.nrows = Some(1)
    /\ hasattr(search) /\ N_MATCH = 2
    /\ Len(last.df[1].rows) = 1
    /\ ExportKey(sha(search_type), None) \in DOMAIN fs_search
    /\ Len(fs_search[ExportKey(sha(search_type), None)].rows) = 2
    /\ fs_search[ExportKey(sha(search_type), Some(1))] = last.df[1]

(***************************************************************************)
(* Claim about the cache entries                                           *)
(***************************************************************************)
\* C20: once a search-result artifact or an exported-dataframe artifact is
\* at a cache path, no call other than clear_cache removes it or changes its
\* content.
C20_WriteOnce ==
    [][last'.op # "clear_cache" =>
          \A p \in DOMAIN fs_search :
              p \in DOMAIN fs_search' /\ fs_search'[p] = fs_search[p]]_vars

\* C20 witness: a search was served from an artifact that differs from what
\* the call computes, and the artifact is still what was served
C20_Witness ==
    /\ Searched /\ last.flag /\ cache
    /\ search_path(search_type) \in DOMAIN fs_search
    /\ fs_search[search_path(search_type)] = search[1]
    /\ search[1] # compute(index[1], search_filter[1], last.nrows).search

(***************************************************************************)
(* Claim about argument validation                                         *)
(***************************************************************************)
MalformedCall(c) ==
    /\ c.op \in SearchOps
    /\ \/ "WMO" \in DOMAIN c.crit /\ c.crit.WMO \in BadWmo
       \/ "CYC" \in DOMAIN c.crit /\ c.crit.CYC \in BadCyc
       \/ "BOX" \in DOMAIN c.crit /\ c.crit.BOX \in BadBox

\* C30: a search method given a malformed WMO list, cycle list or box raises
\* before the index is loaded and before any predicate is built: no file was
\* opened, and Index, Search, search_type (hence cname), the predicate and
\* every cache entry are what they were before the call.
C30_ValidationFailFast ==
    [][MalformedCall(last') =>
          /\ last'.exc = "ValueError"
          /\ last'.opened = "none"
          /\ ~last'.flag
          /\ UNCHANGED <<index, search, search_type, search_filter,
                         fs_search, fs_index, load_nrows>>
          /\ cname(search_type') = cname(search_type)]_vars

\* C30 witness: a malformed call was rejected on a store that held an Index, a
\* Search of an earlier, different search and a cache entry
C30_Witness ==
    /\ MalformedCall(last)
    /\ last.exc = "ValueError"
    /\ hasattr(index)
    /\ hasattr(search)
    /\ search_type # last.crit
    /\ search_path(search_type) \in DOMAIN fs_search

\* C30, the other case: a malformed call was rejected on a store that had
\* never loaded its index
C30_UnloadedReached ==
    MalformedCall(last) /\ last.exc = "ValueError" /\ ~hasattr(index)

(***************************************************************************)
(* Claims about what a reload and clear_cache leave alone                  *)
(***************************************************************************)
\* C31: load(force=True) replaces Index only: Search, search_type, cname, the
\* predicate and every artifact of fs['search'] (search results and exports)
\* are what they were before the call, so N_MATCH and uri read the same after
\* the reload as before it.
C31_ForcedReloadFrame ==
    [][(last'.op = "load" /\ last'.flag) =>
          /\ UNCHANGED <<search, search_type, search_filter, fs_search>>
          /\ cname(search_type') = cname(search_type)
          /\ read_N_MATCH' = read_N_MATCH
          /\ hasattr(search) => uri' = uri]_vars

\* C31 witness: a forced reload gave a shorter Index while Search, and its
\* artifact, still hold a row that is no longer in Index
C31_Witness ==
    /\ last.op = "load" /\ last.flag /\ last.exc = "ok"
    /\ hasattr(search) /\ hasattr(index)
    /\ search_path(search_type) \in DOMAIN fs_search
    /\ fs_search[search_path(search_type)] = search[1]
    /\ \E k \in 1..N_MATCH :
          \A j \in 1..N_RECORDS : index[1].rows[j].file # search[1].rows[k].file

\* C32: on a store with cache=False no load, search method, run or
\* to_dataframe call uses fs['search']: its artifacts are what they were, no
\* call is served from them, every search and run that returns leaves the
\* Search computed from the current Index and predicate, and every
\* to_dataframe that returns gives the table derived from its source.
C32_NoCacheNoArtifacts ==
    [][(~cache' /\ last'.op \in SearchOps \cup {"load", "run", "to_dataframe"}) =>
          /\ fs_search' = fs_search
          /\ last'.op \in SearchOps \cup {"run"} =>
                /\ ~last'.flag
                /\ last'.exc = "ok" =>
                      search' = Some(compute(index'[1], search_filter'[1],
                                             last'.nrows).search)
          /\ (last'.op = "to_dataframe" /\ last'.exc = "ok") =>
                last'.df = Some(export(IF hasattr(search) /\ ~last'.flag
                                       THEN search[1] ELSE index'[1],
                                       last'.nrows))]_vars

\* C32 witness: a search on a store with cache=False returned a Search that
\* differs from the artifact an earlier caching store left at its search path
C32_Witness ==
    /\ ~cache
    /\ last.op \in SearchOps /\ last.exc = "ok"
    /\ search_path(search_type) \in DOMAIN fs_search
    /\ fs_search[search_path(search_type)] # search[1]

\* C32, the export case: to_dataframe on a store with cache=False returned
\* while an export of an earlier caching store lies at its export path
C32_ExportReached ==
    /\ ~cache
    /\ last.op = "to_dataframe" /\ last.exc = "ok" /\ last.flag
    /\ export_path(host \o "/" \o index_file \o "/" \o sha_full, last.nrows)
           \in DOMAIN fs_search

\* C33 (as claimed): clear_cache() empties fs['search'] and changes nothing
\* else: Index, Search, search_type, cname and the predicate are what they
\* were, and N_RECORDS, N_MATCH, uri and to_dataframe (with or without row
\* limit, on Search or on the full index) give right after it what they gave
\* right before it.
C33_ClearCacheFrame ==
    [][last'.op = "clear_cache" =>
          /\ UNCHANGED <<index, search, search_type, search_filter>>
          /\ fs_search' = [p \in {} |-> <<>>]
          /\ cname(search_type') = cname(search_type)
          /\ read_N_RECORDS' = read_N_RECORDS
          /\ read_N_MATCH' = read_N_MATCH
          /\ hasattr(search) => uri' = uri
          /\ \A nrows \in {None, Some(1)}, full \in BOOLEAN :
                LET before == to_dataframe_on(fs_search, nrows, full)
                    after  == to_dataframe_on(fs_search', nrows, full)
                IN  after.exc = before.exc /\ after.df = before.df]_vars

(***************************************************************************)
(* Claims about to_dataframe on the full index                             *)
(***************************************************************************)
\* C36 (as claimed): on a store that caches, in every reachable state right
\* after to_dataframe(index=True) without row limit returned, the table has
\* one row per row of the Index now loaded (as many rows as N_RECORDS).
C36_FullExportIsCurrentIndex ==
    (cache /\ last.op = "to_dataframe" /\ last.flag /\ last.nrows = None
        /\ last.exc = "ok") =>
        /\ Len(last.df[1].rows) = N_RECORDS
        /\ FileCol(last.df[1].rows) = FileCol(index[1].rows)

(***************************************************************************)
(* Claim about a load rejected for its columns                             *)
(***************************************************************************)
\* C34 (as claimed): in both backends, a call in which load fails because
\* the parsed table lacks a required column leaves the store as it was: the
\* index attribute is unchanged (an unloaded store stays unloaded and
\* N_RECORDS still raises, a loaded store keeps its Index), and the table
\* held as Index always has the required columns.
C34_SchemaErrorLeavesStore ==
    [][(last'.exc = "InvalidDatasetStructure") =>
          /\ index' = index
          /\ read_N_RECORDS' = read_N_RECORDS
          /\ hasattr(index') => check_index_cols(index'[1].columns)
          /\ UNCHANGED <<search, search_type, search_filter, fs_search>>]_vars

(***************************************************************************)
(* Claim about search_type and Search                                      *)
(***************************************************************************)
\* C35 (as claimed): search_type, hence cname, describes the criteria that
\* produced the Search held: whenever a call leaves a store holding a Search
\* with a search_type other than before, that call is a search method that
\* returned and whose criteria are the new search_type (so Search was
\* replaced by it); and to_dataframe on Search stores nothing while the
\* latest search method raised.
C35_SearchTypeDescribesSearch ==
    [][/\ (hasattr(search') /\ search_type' # search_type) =>
             /\ last'.op \in SearchOps
             /\ last'.exc = "ok"
             /\ last'.crit = search_type'
       /\ (last.op \in SearchOps /\ last.exc # "ok" /\ hasattr(search)
             /\ last'.op = "to_dataframe" /\ ~last'.flag) =>
             fs_search' = fs_search]_vars

\* C37 (as claimed): max_rows of to_dataframe limits only the table
\* returned: the table has at most max_rows rows, Search and search_type are
\* unchanged by the call, and the Index left behind holds the rows a plain
\* load() gives (every data row of the index file), whether the store was
\* loaded or unloaded when to_dataframe was called.
C37_ExportLimitOnlyLimitsTable ==
    [][(last'.op = "to_dataframe" /\ last'.exc = "ok") =>
          /\ UNCHANGED <<search, search_type, search_filter>>
          /\ last'.nrows # None => Len(last'.df[1].rows) <= last'.nrows[1]
          /\ hasattr(index) => index' = index
          /\ ~hasattr(index) /\ hasattr(index') =>
                IndexCols(index'[1].rows) = gdac]_vars

(***************************************************************************)
(* Claim about the lines read by the pyarrow backend                       *)
(***************************************************************************)
\* C39: in the pyarrow backend, load(max_rows=n) on an unloaded store hands
\* at most n + 9 lines of the index file to the parser, and when the file
\* holds at least n data rows the call returns with an Index of exactly n
\* rows, the first n data rows of the file.
C39_PyarrowReadsNPlus9Lines ==
    [][(backend = "pyarrow" /\ last'.op = "load" /\ ~hasattr(index)
          /\ last'.nrows # None) =>
          LET n == last'.nrows[1]
          IN  /\ lines_copied(gdac, last'.nrows) <= n + 9
              /\ Len(gdac) >= n =>
                    /\ last'.exc = "ok"
                    /\ shape0(index'[1]) = n
                    /\ index'[1].rows = SubSeq(gdac, 1, n)]_vars

\* C39 witness: load(max_rows=2) of the pyarrow backend read a file of more
\* than 2 data rows on an unloaded store and returned with 2 rows
C39_Witness ==
    /\ backend = "pyarrow"
    /\ last.op = "load" /\ last.nrows = Some(2) /\ ~last.flag
    /\ last.opened # "none" /\ last.exc = "ok"
    /\ Len(gdac) > 2
    /\ N_RECORDS = 2

(***************************************************************************)
(* Claim about the box fetcher                                             *)
(***************************************************************************)
\* the profiles of the index within the box, bounds included
InBoxInclusive(p, BOX) ==
    /\ BOX[1] <= p.LONGITUDE /\ p.LONGITUDE <= BOX[2]
    /\ BOX[3] <= p.LATITUDE /\ p.LATITUDE <= BOX[4]

InPresTimeRange(p, BOX) ==
    /\ BOX[5] <= p.PRES /\ p.PRES < BOX[6]
    /\ Len(BOX) = 8 => (BOX[7] <= p.TIME /\ p.TIME < BOX[8])

IndexSelected(BOX) ==
    SelectSeq(gdac, LAMBDA r :
        /\ BOX[1] <= r.longitude /\ r.longitude <= BOX[2]
        /\ BOX[3] <= r.latitude /\ r.latitude <= BOX[4]
        /\ Len(BOX) = 8 => (BOX[7] <= r.date /\ r.date <= BOX[8]))

\* C38 (as claimed): once a box fetcher returned its dataset: if the index
\* selected more than 25 files, the list of files holds the multi-profile
\* files of their floats, the post-filter is enabled, and the dataset holds
\* every point of the files whose longitude and latitude lie within the box,
\* both ends included, and whose pressure and time are in range, and no point
\* outside the box or out of range; if it selected 25 files or fewer, the
\* list of files is the list of the index, the post-filter is disabled and
\* the dataset holds every point of the files.
C38_BoxFetcherAgreesWithIndex ==
    fetcher.ds # None =>
        LET BOX  == fetcher.BOX
            rows == IndexSelected(BOX)
        IN  IF Len(rows) > 25
            THEN /\ fetcher.post_filter_points
                 /\ {fetcher.list_of_argo_files[1][k] :
                        k \in 1..Len(fetcher.list_of_argo_files[1])} =
                       {"/gdac/dac/aoml/13857/13857_prof.nc",
                        "/gdac/dac/aoml/13858/13858_prof.nc"}
                 /\ fetcher.ds[1] =
                       SelectSeq(fetcher.points, LAMBDA p :
                           InBoxInclusive(p, BOX) /\ InPresTimeRange(p, BOX))
            ELSE /\ ~fetcher.post_filter_points
                 /\ fetcher.list_of_argo_files[1] =
                       [k \in 1..Len(rows) |-> host \o "/dac/" \o rows[k].file]
                 /\ fetcher.ds[1] = fetcher.points

(***************************************************************************)
(* Claim about the cache round trip                                        *)
(***************************************************************************)
\* C6: with caching enabled, after a search has computed and persisted its
\* result, discarding the in-memory state and invoking the same search again
\* (same method, criteria, max_rows) gives the same Search, and to_dataframe
\* the same table as before; after clear_cache the artifact of the search is
\* absent, and the same search then recomputes and the artifact is present
\* again.
C6_CacheRoundTrip ==
    LET path == search_path(rt.crit)
    IN  /\ rt.stage # "failed"
        /\ rt.stage \in {"persisted", "exported"} =>
              path \in DOMAIN fs_search /\ fs_search[path] = search[1]
        /\ rt.stage = "reinvoked" => search = rt.search
        /\ rt.stage = "reexported" => last.df = Some(rt.df[1][2])
        /\ rt.stage = "cleared" => path \notin DOMAIN fs_search
        /\ rt.stage = "recomputed" =>
              /\ ~last.flag
              /\ path \in DOMAIN fs_search
              /\ fs_search[path] = search[1]

\* C6 witness: a search went through the whole round trip (persisted,
\* exported, discarded, invoked again, exported again) and was then recomputed
\* after clear_cache
C6_Witness == rt.stage = "recomputed" /\ rt.trip /\ cache

====
